---------------------------- MODULE Spec2Model ----------------------------
(***************************************************************************)
(* A model of praisonai_test: the mock resolver (mocks.py: MockLLM, the    *)
(* provider-shaped adapters built on it, and the values they exchange),    *)
(* AgentTest.run_test and the decorators (agent_test.py), the assertion    *)
(* helpers (assertions.py, agent_test.py) and TestRunner (runner.py).      *)
(*                                                                         *)
(* Python strings are sequences of one-character strings, so that equality *)
(* is case- and whitespace-sensitive and a regular expression is matched   *)
(* character by character.  A Python value that may be a str or a list     *)
(* (a message's content, and therefore the prompt an adapter hands on) is  *)
(* a record [type, chars, parts].                                          *)
(***************************************************************************)
EXTENDS Integers, Sequences, FiniteSets

VARIABLES
    responses,         \* MockLLM.responses: the registered matchers, in order
    call_history,      \* MockLLM.call_history: one record per get_response
    default_response,  \* MockLLM.default_response: a str or a MockResponse
    op,                \* the most recent call on the API and its arguments
    ret,               \* how the most recent call ended (none before the first)
    shaped,            \* the object the most recent adapter call returned
    invoked,           \* log of get_response invocations since the last reset
    given_default,     \* the argument of the latest set_default_response, if any
    results,           \* AgentTest.results: one TestResult per completed run_test
    hooks              \* the hooks and the body the latest run_test invoked, in order

vars ==
    <<responses, call_history, default_response, op, ret, shaped, invoked,
      given_default, results, hooks>>

---------------------------------------------------------------------------
(* Bounds of the model *)

MaxMatchers == 2
MaxCalls == 2

---------------------------------------------------------------------------
(* Python values *)

PyStr(s) == [type |-> "str", chars |-> s, parts |-> <<>>]
PyList(ps) == [type |-> "list", chars |-> <<>>, parts |-> ps]
Absent == [type |-> "absent", chars |-> <<>>, parts |-> <<>>]

\* dict.get(key, ""): the value, or the empty str when the key is missing
GetOrEmpty(v) == IF v.type = "absent" THEN PyStr(<<>>) ELSE v

\* str.join over a list of strs
RECURSIVE Join(_, _)
Join(sep, strs) ==
    IF Len(strs) = 0 THEN <<>>
    ELSE IF Len(strs) = 1 THEN strs[1]
    ELSE strs[1] \o sep \o Join(sep, Tail(strs))

---------------------------------------------------------------------------
(* MockResponse *)

DefaultTokensUsed == 100

MockResponse(content) ==
    [type |-> "MockResponse", content |-> content, model |-> "gpt-4",
     tokens_used |-> DefaultTokensUsed, cost |-> "0.01", latency |-> "0.5",
     metadata |-> {}]

\* mock_llm_response(content, **kwargs): a response with its fields overridden
mock_llm_response(content, model, tokens, cost, latency, metadata) ==
    [MockResponse(content) EXCEPT !.model = model, !.tokens_used = tokens,
        !.cost = cost, !.latency = latency, !.metadata = metadata]

StrResponse(content) == [type |-> "str", content |-> content]

\* `if isinstance(response, str): response = MockResponse(content=response)`
WrapResponse(response) ==
    IF response.type = "str" THEN MockResponse(response.content) ELSE response

NoResponse == [type |-> "none"]

---------------------------------------------------------------------------
(* re.compile and Pattern.match, for patterns made of literal characters, *)
(* "." (any character) and a postfix "*"                                  *)

\* re.compile raises re.error: "*" with nothing to repeat, or a repeated "*"
CompileFails(pattern) ==
    \E i \in 1..Len(pattern) :
        pattern[i] = "*" /\ (i = 1 \/ pattern[i - 1] = "*")

\* the compiled pattern: its atoms, each with or without a star
RECURSIVE ParseFrom(_, _)
ParseFrom(pattern, i) ==
    IF i > Len(pattern) THEN <<>>
    ELSE IF i < Len(pattern) /\ pattern[i + 1] = "*"
         THEN <<[atom |-> pattern[i], star |-> TRUE]>> \o ParseFrom(pattern, i + 2)
         ELSE <<[atom |-> pattern[i], star |-> FALSE]>> \o ParseFrom(pattern, i + 1)

Compile(pattern) == ParseFrom(pattern, 1)

AtomMatches(atom, ch) == atom = "." \/ atom = ch

\* some match of items k.. starts at position j of s (the end of s need not be reached)
RECURSIVE MatchFrom(_, _, _, _)
MatchFrom(items, k, s, j) ==
    IF k > Len(items) THEN TRUE
    ELSE IF items[k].star
         THEN \/ MatchFrom(items, k + 1, s, j)
              \/ /\ j <= Len(s)
                 /\ AtomMatches(items[k].atom, s[j])
                 /\ MatchFrom(items, k, s, j + 1)
         ELSE /\ j <= Len(s)
              /\ AtomMatches(items[k].atom, s[j])
              /\ MatchFrom(items, k + 1, s, j + 1)

\* (mutant) Pattern.search in place of Pattern.match: a match starting anywhere
ReMatchAnywhere(items, s) == \E j \in 1..(Len(s) + 1) : MatchFrom(items, 1, s, j)

\* Pattern.match(s) is truthy: the pattern matches at position 0 of s
ReMatch(items, s) == MatchFrom(items, 1, s, 1)

---------------------------------------------------------------------------
(* Keyword arguments: a set of <<name, value>> pairs, one per name *)

HasKey(kwargs, k) == \E kv \in kwargs : kv[1] = k
KwGet(kwargs, k) == (CHOOSE kv \in kwargs : kv[1] = k)[2]

---------------------------------------------------------------------------
(* Matcher callables a caller hands to add_function_response.  A call    *)
(* ends in a truth value or in an exception ("" when none).              *)

Truth(b) == [hit |-> b, exc |-> ""]
Raised(e) == [hit |-> FALSE, exc |-> e]

Contains(s, ch) == \E i \in 1..Len(s) : s[i] = ch

\* def is_math(prompt, **kwargs):
\*     return any(op in prompt for op in ['+', '-', '*', '/'])
\* (for a list prompt, `in` looks for an element equal to op: there is none)
is_math(prompt, kwargs) ==
    Truth(prompt.type = "str"
          /\ \E o \in {"+", "-", "*", "/"} : Contains(prompt.chars, o))

\* def wants_extra(prompt, **kwargs): return kwargs["extra_param"] == "value"
wants_extra(prompt, kwargs) ==
    IF HasKey(kwargs, "extra_param")
    THEN Truth(KwGet(kwargs, "extra_param") = "value")
    ELSE Raised("KeyError")

\* matcher(prompt, **kwargs)
CallMatcher(fn, prompt, kwargs) ==
    IF fn = "is_math" THEN is_math(prompt, kwargs)
    ELSE wants_extra(prompt, kwargs)

---------------------------------------------------------------------------
(* MockLLM *)

\* one entry of MockLLM.responses: (matcher, response, match_type)
ExactEntry(prompt, response) ==
    [match_type |-> "exact", key |-> prompt, regex |-> <<>>, fn |-> "",
     response |-> response]
PatternEntry(pattern, response) ==
    [match_type |-> "pattern", key |-> pattern, regex |-> Compile(pattern),
     fn |-> "", response |-> response]
FunctionEntry(fn, response) ==
    [match_type |-> "function", key |-> <<>>, regex |-> <<>>, fn |-> fn,
     response |-> response]

Lower(ch) == IF ch = "A" THEN "a" ELSE ch
LowerCase(str) == [i \in 1..Len(str) |-> Lower(str[i])]
RECURSIVE LStrip(_)
LStrip(str) == IF Len(str) > 0 /\ str[1] = " " THEN LStrip(Tail(str)) ELSE str

\* (mutant) the exact comparison normalises case and leading whitespace
TestNormalised(entry, prompt, kwargs) ==
    IF entry.match_type = "exact"
    THEN Truth(prompt.type = "str"
               /\ LowerCase(LStrip(prompt.chars)) = LowerCase(LStrip(entry.key)))
    ELSE IF entry.match_type = "pattern"
         THEN IF prompt.type = "str"
              THEN Truth(ReMatch(entry.regex, prompt.chars))
              ELSE Raised("TypeError")
         ELSE CallMatcher(entry.fn, prompt, kwargs)

\* the test of one entry inside get_response's loop
\* (Pattern.match on a prompt that is not a str raises TypeError)
Test(entry, prompt, kwargs) ==
    IF entry.match_type = "exact"
    THEN Truth(prompt = PyStr(entry.key))
    ELSE IF entry.match_type = "pattern"
         THEN IF prompt.type = "str"
              THEN Truth(ReMatch(entry.regex, prompt.chars))
              ELSE Raised("TypeError")
         ELSE CallMatcher(entry.fn, prompt, kwargs)

\* how a call ended: a returned response (via = the entry it came from, 0 for
\* the default), a raised exception (via = the entry that raised), or neither
Returned(response, i) == [kind |-> "return", val |-> response, exc |-> "", via |-> i]
Raise(e, i) == [kind |-> "raise", val |-> NoResponse, exc |-> e, via |-> i]
Nothing == [kind |-> "none", val |-> NoResponse, exc |-> "", via |-> 0]

\* (mutant) the default is handed back as stored, a bare str included
DefaultResultUnwrapped(dflt) == Returned(dflt, 0)

\* the fall-through of get_response
DefaultResult(dflt) == Returned(WrapResponse(dflt), 0)

\* (mutant) a matcher that raises counts as not matching
RECURSIVE ScanSwallowing(_, _, _, _, _)
ScanSwallowing(rs, dflt, i, prompt, kwargs) ==
    IF i > Len(rs) THEN DefaultResult(dflt)
    ELSE LET t == Test(rs[i], prompt, kwargs) IN
         IF t.exc = "" /\ t.hit THEN Returned(rs[i].response, i)
         ELSE ScanSwallowing(rs, dflt, i + 1, prompt, kwargs)

\* (mutant) the loop keeps going after a hit: the last satisfied entry wins
RECURSIVE ScanLastWins(_, _, _, _, _)
ScanLastWins(rs, dflt, i, prompt, kwargs) ==
    IF i > Len(rs) THEN DefaultResult(dflt)
    ELSE LET t == Test(rs[i], prompt, kwargs) IN
         IF t.exc # "" THEN Raise(t.exc, i)
         ELSE LET later == ScanLastWins(rs, dflt, i + 1, prompt, kwargs) IN
              IF t.hit /\ later.kind = "return" /\ later.via = 0
              THEN Returned(rs[i].response, i)
              ELSE later

\* the loop of get_response from entry i on
RECURSIVE ScanFrom(_, _, _, _, _)
ScanFrom(rs, dflt, i, prompt, kwargs) ==
    IF i > Len(rs) THEN DefaultResult(dflt)
    ELSE LET t == Test(rs[i], prompt, kwargs) IN
         IF t.exc # "" THEN Raise(t.exc, i)
         ELSE IF t.hit THEN Returned(rs[i].response, i)
         ELSE ScanFrom(rs, dflt, i + 1, prompt, kwargs)

\* the record get_response appends to call_history
CallRecord(prompt, kwargs) == [prompt |-> prompt, kwargs |-> kwargs]

\* (mutant) a prompt already in the history is answered by the default
ResolveOnce(rs, dflt, prompt, kwargs) ==
    IF \E i \in 1..Len(call_history) : call_history[i].prompt = prompt
    THEN DefaultResult(dflt)
    ELSE ScanFrom(rs, dflt, 1, prompt, kwargs)

\* what get_response(prompt, **kwargs) returns or raises
Resolve(rs, dflt, prompt, kwargs) == ScanFrom(rs, dflt, 1, prompt, kwargs)

\* (mutant) the newest record is put first
RecordedNewestFirst(history, prompt, kwargs) ==
    <<CallRecord(prompt, kwargs)>> \o history

\* the history after get_response(prompt, **kwargs)
Recorded(history, prompt, kwargs) == Append(history, CallRecord(prompt, kwargs))

get_call_count == Len(call_history)

NoCall == [prompt |-> Absent, kwargs |-> {}]
IsNone(x) == x.prompt.type = "absent"
\* (mutant) the oldest record instead of the newest
get_first_call ==
    IF Len(call_history) > 0 THEN call_history[1] ELSE NoCall

get_last_call ==
    IF Len(call_history) > 0 THEN call_history[Len(call_history)] ELSE NoCall

---------------------------------------------------------------------------
(* Provider-shaped adapters: the prompt they extract and the object they  *)
(* build from the resolved response                                       *)

Message(role, content) == [role |-> role, content |-> content]
TextPart(s) == [hasText |-> TRUE, text |-> s]
OtherPart == [hasText |-> FALSE, text |-> <<>>]

\* `for msg in reversed(messages): if msg.get("role") == "user": ... break`
\* the index the loop stops at, 0 when it runs to the end
RECURSIVE LastUserFrom(_, _)
LastUserFrom(messages, i) ==
    IF i = 0 THEN 0
    ELSE IF messages[i].role = "user" THEN i
    ELSE LastUserFrom(messages, i - 1)

\* [c.get("text", "") for c in content]
RECURSIVE PartTexts(_)
PartTexts(parts) ==
    IF Len(parts) = 0 THEN <<>>
    ELSE <<IF parts[1].hasText THEN parts[1].text ELSE <<>>>> \o PartTexts(Tail(parts))

\* OpenAIMock.Chat.Completions.create and LiteLLMMock.completion: user_message
OpenAIUserMessage(messages) ==
    LET i == LastUserFrom(messages, Len(messages)) IN
    IF i = 0 THEN PyStr(<<>>) ELSE GetOrEmpty(messages[i].content)

LiteLLMUserMessage(messages) ==
    LET i == LastUserFrom(messages, Len(messages)) IN
    IF i = 0 THEN PyStr(<<>>) ELSE GetOrEmpty(messages[i].content)

\* AnthropicMock.Messages.create: user_message
AnthropicUserMessage(messages) ==
    LET i == LastUserFrom(messages, Len(messages)) IN
    IF i = 0 THEN PyStr(<<>>)
    ELSE LET content == GetOrEmpty(messages[i].content) IN
         IF content.type = "list"
         THEN PyStr(Join(<<" ">>, PartTexts(content.parts)))
         ELSE content

NoShape == [provider |-> "none"]

OpenAIShape(response) ==
    [provider |-> "openai", content |-> response.content, role |-> "assistant",
     finish_reason |-> "stop", model |-> response.model,
     total_tokens |-> response.tokens_used,
     prompt_tokens |-> response.tokens_used \div 2,
     completion_tokens |-> response.tokens_used \div 2]

AnthropicShape(response) ==
    [provider |-> "anthropic", text |-> response.content, model |-> response.model,
     input_tokens |-> response.tokens_used \div 2,
     output_tokens |-> response.tokens_used \div 2]

LiteLLMShape(response) ==
    [provider |-> "litellm", content |-> response.content, role |-> "assistant",
     model |-> response.model,
     total_tokens |-> response.tokens_used,
     prompt_tokens |-> response.tokens_used \div 2,
     completion_tokens |-> response.tokens_used \div 2]

---------------------------------------------------------------------------
(* Inputs *)

Prompts == {<<"a">>, <<"A">>, <<" ", "a">>}
ExactKeys == {<<"a">>}
PatternInputs == {<<"a", ".", "*">>, <<"*", "a">>, <<"a", "*", "*">>}
Matchers == {"wants_extra"}
KwargsInputs == {{}, {<<"extra_param", "value">>}}

\* the direct calls of get_response: the key itself with and without the
\* keyword argument, the key in another case, the key after a space
Calls ==
    { <<PyStr(<<"a">>), {}>>,
      <<PyStr(<<"a">>), {<<"extra_param", "value">>}>>,
      <<PyStr(<<"A">>), {}>>,
      <<PyStr(<<" ", "a">>), {<<"extra_param", "value">>}>> }

CustomResponse ==
    mock_llm_response("B", "gpt-4", 51, "0.02", "0.5", {<<"source", "mock">>})

ResponseInputs == {StrResponse("A"), CustomResponse}
DefaultInputs == {StrResponse("D"), CustomResponse}

Conversations ==
    { <<Message("user", PyStr(<<"A">>)), Message("user", PyStr(<<"a">>)),
        Message("assistant", PyStr(<<"a", "+">>))>>,
      <<Message("user", PyList(<<TextPart(<<"a">>), TextPart(<<"+">>)>>))>>,
      <<Message("user", PyList(<<OtherPart, TextPart(<<"a">>)>>))>>,
      <<Message("system", PyStr(<<"a">>)), Message("user", Absent)>>,
      <<Message("assistant", PyStr(<<"a">>))>> }

---------------------------------------------------------------------------
(* The state after construction *)

Init ==
    /\ responses = <<>>
    /\ call_history = <<>>
    /\ default_response = StrResponse("Mock response")
    /\ op = [name |-> "__init__"]
    /\ ret = Nothing
    /\ shaped = NoShape
    /\ invoked = <<>>
    /\ given_default = NoResponse
    /\ results = <<>>
    /\ hooks = <<>>

---------------------------------------------------------------------------
(* MockLLM's operations *)

\* (mutant) the newest matcher is put ahead of the earlier ones
RegisteredAhead(rs, entry) == <<entry>> \o rs

Registered(rs, entry) == Append(rs, entry)

add_response(prompt, response) ==
    /\ Len(responses) < MaxMatchers
    /\ responses' = Registered(responses, ExactEntry(prompt, WrapResponse(response)))
    /\ op' = [name |-> "add_response"]
    /\ ret' = Nothing
    /\ shaped' = NoShape
    /\ UNCHANGED <<call_history, default_response, invoked, given_default, results, hooks>>

\* (mutant) the pattern is stored as given and only compiled when first used
add_pattern_deferred(pattern, response) ==
    /\ Len(responses) < MaxMatchers
    /\ ret' = Nothing
    /\ responses' =
         Registered(responses, PatternEntry(pattern, WrapResponse(response)))
    /\ op' = [name |-> "add_pattern", pattern |-> pattern]
    /\ shaped' = NoShape
    /\ UNCHANGED <<call_history, default_response, invoked, given_default, results, hooks>>

\* re.compile(pattern) is evaluated before the append: when it raises,
\* nothing is appended
add_pattern(pattern, response) ==
    /\ IF CompileFails(pattern)
       THEN /\ ret' = Raise("re.error", 0)
            /\ UNCHANGED responses
       ELSE /\ Len(responses) < MaxMatchers
            /\ ret' = Nothing
            /\ responses' =
                 Registered(responses, PatternEntry(pattern, WrapResponse(response)))
    /\ op' = [name |-> "add_pattern", pattern |-> pattern]
    /\ shaped' = NoShape
    /\ UNCHANGED <<call_history, default_response, invoked, given_default, results, hooks>>

add_function_response(matcher, response) ==
    /\ Len(responses) < MaxMatchers
    /\ responses' =
         Registered(responses, FunctionEntry(matcher, WrapResponse(response)))
    /\ op' = [name |-> "add_function_response"]
    /\ ret' = Nothing
    /\ shaped' = NoShape
    /\ UNCHANGED <<call_history, default_response, invoked, given_default, results, hooks>>

set_default_response(response) ==
    /\ default_response' = WrapResponse(response)
    /\ given_default' = response
    /\ op' = [name |-> "set_default_response"]
    /\ ret' = Nothing
    /\ shaped' = NoShape
    /\ UNCHANGED <<responses, call_history, invoked, results, hooks>>

\* (mutant) a matcher answers once: the entry that answered is used up
get_response_once(prompt, kwargs) ==
    /\ Len(call_history) < MaxCalls
    /\ call_history' = Recorded(call_history, prompt, kwargs)
    /\ ret' = Resolve(responses, default_response, prompt, kwargs)
    /\ responses' = IF ret'.kind = "return" /\ ret'.via > 0
                    THEN SubSeq(responses, 1, ret'.via - 1)
                         \o SubSeq(responses, ret'.via + 1, Len(responses))
                    ELSE responses
    /\ invoked' = Append(invoked, <<prompt, kwargs>>)
    /\ op' = [name |-> "get_response"]
    /\ shaped' = NoShape
    /\ UNCHANGED <<default_response, given_default, results, hooks>>

\* (mutant) the record is appended after the scan: a call that raises leaves none
get_response_recorded_last(prompt, kwargs) ==
    /\ Len(call_history) < MaxCalls
    /\ ret' = Resolve(responses, default_response, prompt, kwargs)
    /\ call_history' = IF ret'.kind = "raise" THEN call_history
                       ELSE Recorded(call_history, prompt, kwargs)
    /\ invoked' = Append(invoked, <<prompt, kwargs>>)
    /\ op' = [name |-> "get_response"]
    /\ shaped' = NoShape
    /\ UNCHANGED <<responses, default_response, given_default, results, hooks>>

get_response(prompt, kwargs) ==
    /\ Len(call_history) < MaxCalls
    /\ call_history' = Recorded(call_history, prompt, kwargs)
    /\ ret' = Resolve(responses, default_response, prompt, kwargs)
    /\ invoked' = Append(invoked, <<prompt, kwargs>>)
    /\ op' = [name |-> "get_response"]
    /\ shaped' = NoShape
    /\ UNCHANGED <<responses, default_response, given_default, results, hooks>>

\* (mutant) reset starts the resolver over, matchers included
reset_everything ==
    /\ call_history' = <<>>
    /\ invoked' = <<>>
    /\ responses' = <<>>
    /\ op' = [name |-> "reset", before |-> Len(call_history)]
    /\ ret' = Nothing
    /\ shaped' = NoShape
    /\ UNCHANGED <<default_response, given_default, results, hooks>>

reset ==
    /\ call_history' = <<>>
    /\ invoked' = <<>>
    /\ op' = [name |-> "reset", before |-> Len(call_history)]
    /\ ret' = Nothing
    /\ shaped' = NoShape
    /\ UNCHANGED <<responses, default_response, given_default, results, hooks>>

---------------------------------------------------------------------------
(* The adapters' calls *)

\* each adapter extracts the prompt, calls get_response with the remaining
\* keyword arguments, and shapes the response it got back
\* (mutant) a conversation without a user message is answered with the default
\* response, without consulting the resolver
openai_create_unrecorded(messages, kwargs) ==
    /\ Len(call_history) < MaxCalls
    /\ LET user_message == OpenAIUserMessage(messages)
           response == Resolve(responses, default_response, user_message, kwargs)
           asked == LastUserFrom(messages, Len(messages)) # 0
       IN /\ call_history' = IF asked THEN Recorded(call_history, user_message, kwargs)
                             ELSE call_history
          /\ invoked' = IF asked THEN Append(invoked, <<user_message, kwargs>>)
                        ELSE invoked
          /\ ret' = IF asked THEN response ELSE DefaultResult(default_response)
          /\ shaped' = IF ~asked THEN OpenAIShape(WrapResponse(default_response))
                       ELSE IF response.kind = "return"
                       THEN OpenAIShape(response.val) ELSE NoShape
    /\ op' = [name |-> "openai_create", messages |-> messages, kwargs |-> kwargs]
    /\ UNCHANGED <<responses, default_response, given_default, results, hooks>>

openai_create(messages, kwargs) ==
    /\ Len(call_history) < MaxCalls
    /\ LET user_message == OpenAIUserMessage(messages)
           response == Resolve(responses, default_response, user_message, kwargs)
       IN /\ call_history' = Recorded(call_history, user_message, kwargs)
          /\ invoked' = Append(invoked, <<user_message, kwargs>>)
          /\ ret' = response
          /\ shaped' = IF response.kind = "return"
                       THEN OpenAIShape(response.val) ELSE NoShape
    /\ op' = [name |-> "openai_create", messages |-> messages, kwargs |-> kwargs]
    /\ UNCHANGED <<responses, default_response, given_default, results, hooks>>

anthropic_create(messages, kwargs) ==
    /\ Len(call_history) < MaxCalls
    /\ LET user_message == AnthropicUserMessage(messages)
           response == Resolve(responses, default_response, user_message, kwargs)
       IN /\ call_history' = Recorded(call_history, user_message, kwargs)
          /\ invoked' = Append(invoked, <<user_message, kwargs>>)
          /\ ret' = response
          /\ shaped' = IF response.kind = "return"
                       THEN AnthropicShape(response.val) ELSE NoShape
    /\ op' = [name |-> "anthropic_create", messages |-> messages, kwargs |-> kwargs]
    /\ UNCHANGED <<responses, default_response, given_default, results, hooks>>

litellm_completion(messages, kwargs) ==
    /\ Len(call_history) < MaxCalls
    /\ LET user_message == LiteLLMUserMessage(messages)
           response == Resolve(responses, default_response, user_message, kwargs)
       IN /\ call_history' = Recorded(call_history, user_message, kwargs)
          /\ invoked' = Append(invoked, <<user_message, kwargs>>)
          /\ ret' = response
          /\ shaped' = IF response.kind = "return"
                       THEN LiteLLMShape(response.val) ELSE NoShape
    /\ op' = [name |-> "litellm_completion", messages |-> messages, kwargs |-> kwargs]
    /\ UNCHANGED <<responses, default_response, given_default, results, hooks>>

---------------------------------------------------------------------------
(* The resolver driven through its own API *)

Next ==
    \/ \E p \in ExactKeys, r \in ResponseInputs : add_response(p, r)
    \/ \E p \in PatternInputs, r \in ResponseInputs : add_pattern(p, r)
    \/ \E f \in Matchers, r \in ResponseInputs : add_function_response(f, r)
    \/ \E r \in DefaultInputs : set_default_response(r)
    \/ \E c \in Calls : get_response(c[1], c[2])
    \/ reset

Spec == Init /\ [][Next]_vars

(* The resolver behind the provider adapters, with matchers already registered *)

ProviderSetups ==
    { <<>>,
      <<ExactEntry(<<"a">>, MockResponse("A")),
        PatternEntry(<<"a", ".", "*">>, CustomResponse)>>,
      <<FunctionEntry("wants_extra", CustomResponse),
        ExactEntry(<<"a">>, MockResponse("A"))>>,
      <<FunctionEntry("is_math", MockResponse("A"))>> }

InitProviders ==
    /\ responses \in ProviderSetups
    /\ call_history = <<>>
    /\ default_response = StrResponse("Mock response")
    /\ op = [name |-> "__init__"]
    /\ ret = Nothing
    /\ shaped = NoShape
    /\ invoked = <<>>
    /\ given_default = NoResponse
    /\ results = <<>>
    /\ hooks = <<>>

NextProviders ==
    \/ \E m \in Conversations, k \in KwargsInputs : openai_create(m, k)
    \/ \E m \in Conversations, k \in KwargsInputs : anthropic_create(m, k)
    \/ \E m \in Conversations, k \in KwargsInputs : litellm_completion(m, k)
    \/ \E c \in Calls : get_response(c[1], c[2])
    \/ reset

SpecProviders == InitProviders /\ [][NextProviders]_vars

---------------------------------------------------------------------------
(* AgentTest.run_test (agent_test.py)                                      *)
(*                                                                         *)
(* A text is a sequence of pieces, so that a prefix can be put before it.  *)
(* How a call ends is a record: it returns a value, or raises an exception *)
(* of a class with a message (what str(e) gives).  A value that may be     *)
(* None is a record too.                                                   *)

MaxResults == 2

PyNone == [isNone |-> TRUE, val |-> <<>>]
Just(v) == [isNone |-> FALSE, val |-> v]

Returns(v) == [kind |-> "return", val |-> v, exc |-> "", message |-> <<>>]
Raises(e, message) == [kind |-> "raise", val |-> PyNone, exc |-> e, message |-> message]

\* the classes `except AssertionError` and `except Exception` catch
IsAssertionError(e) == e = "AssertionError"
IsException(e) == e \in {"AssertionError", "RuntimeError", "TypeError"}

\* AgentTest.assert_equals, with the two values given as they print
assert_equals(actual, expected) ==
    IF actual = expected THEN Returns(PyNone)
    ELSE Raises("AssertionError", <<"Expected: ", expected, "\nActual: ", actual>>)

\* a callable: its __name__ and __doc__, the positional parameters it
\* declares, whether the first one is already bound to an instance, and how
\* its body ends once it runs
Function(name, doc, body) ==
    [name |-> name, doc |-> doc, params |-> 1, bound |-> FALSE, body |-> body]
BoundMethod(name, doc, body) ==
    [name |-> name, doc |-> doc, params |-> 1, bound |-> TRUE, body |-> body]
Lambda(body) ==
    [name |-> "<lambda>", doc |-> PyNone, params |-> 0, bound |-> FALSE, body |-> body]

Numeral(n) == IF n = 0 THEN "0" ELSE IF n = 1 THEN "1" ELSE "2"

\* f(self): a call with one positional argument.  Python binds the arguments
\* before the body runs and raises TypeError when their number is wrong (the
\* message starts with the callable's name as Python prints it).
Binds(f) == f.params = 1 + (IF f.bound THEN 1 ELSE 0)

CallWithSelf(f) ==
    LET given == 1 + (IF f.bound THEN 1 ELSE 0) IN
    IF Binds(f) THEN f.body
    ELSE Raises("TypeError",
                <<f.name, "() takes ", Numeral(f.params),
                  IF f.params = 1 THEN " positional argument but "
                  ELSE " positional arguments but ",
                  Numeral(given),
                  IF given = 1 THEN " was given" ELSE " were given">>)

\* time.time() - start_time: what the clock measured, whatever it is
Measured == "measured"

TestResult(test_name, status, duration, agent_output, error, metadata) ==
    [test_name |-> test_name, status |-> status, duration |-> duration,
     agent_output |-> agent_output, expected_output |-> PyNone, error |-> error,
     metadata |-> metadata]

\* the try block: setup, then the test function called with the instance
Attempt(setup, test_func) ==
    IF setup.kind = "raise" THEN setup ELSE CallWithSelf(test_func)

\* (mutant) teardown is the last statement of the try block
InvokedWithoutFinally(setup, test_func) ==
    <<"setup">>
    \o (IF setup.kind = "return" /\ Binds(test_func) THEN <<"body">> ELSE <<>>)
    \o (IF Attempt(setup, test_func).kind = "return" THEN <<"teardown">> ELSE <<>>)

\* what run_test invokes, in order; the finally clause runs however the try
\* block ended
Invoked(setup, test_func) ==
    <<"setup">>
    \o (IF setup.kind = "return" /\ Binds(test_func) THEN <<"body">> ELSE <<>>)
    \o <<"teardown">>

\* the try statement's clauses: the TestResult built, or the exception that
\* no clause catches
Handled(test_func, attempt) ==
    IF attempt.kind = "return"
    THEN Returns(TestResult(test_func.name, "passed", Measured, attempt.val, PyNone,
                            {<<"test_doc", IF test_func.doc.isNone THEN ""
                                           ELSE test_func.doc.val>>}))
    ELSE IF IsAssertionError(attempt.exc)
    THEN Returns(TestResult(test_func.name, "failed", Measured, PyNone,
                            Just(attempt.message), {}))
    ELSE IF IsException(attempt.exc)
    THEN Returns(TestResult(test_func.name, "failed", Measured, PyNone,
                            Just(<<"Unexpected error: ">> \o attempt.message), {}))
    ELSE attempt

\* an exception raised in the finally clause replaces whatever was pending
Finally(handled, teardown) == IF teardown.kind = "raise" THEN teardown ELSE handled

run_test(setup, test_func, teardown) ==
    /\ Len(results) < MaxResults
    /\ LET outcome == Finally(Handled(test_func, Attempt(setup, test_func)), teardown)
       IN /\ ret' = outcome
          /\ results' = IF outcome.kind = "return"
                        THEN Append(results, outcome.val) ELSE results
    /\ hooks' = Invoked(setup, test_func)
    /\ op' = [name |-> "run_test", setup |-> setup, test_func |-> test_func,
              teardown |-> teardown]
    /\ UNCHANGED <<responses, call_history, default_response, shaped, invoked,
                   given_default>>

(* Inputs: the hooks a subclass may define, and the callables handed over *)

Setups ==
    { Returns(PyNone),
      Raises("AssertionError", <<"agent not configured">>),
      Raises("RuntimeError", <<"no connection">>) }

Teardowns == {Returns(PyNone), Raises("RuntimeError", <<"cleanup failed">>)}

\* SampleAgentTest.test_passing and test_failing, a test that returns the
\* agent's output, one that breaks and one that is interrupted
test_passing == assert_equals("1", "1")
test_failing == assert_equals("1", "2")

TestFuncs ==
    { Function("test_passing", Just("A test that passes"), test_passing),
      Function("test_failing", Just("A test that fails"), test_failing),
      Function("test_output", PyNone, Returns(Just("output"))),
      Function("test_broken", PyNone, Raises("RuntimeError", <<"boom">>)),
      Function("test_interrupted", PyNone, Raises("KeyboardInterrupt", <<>>)),
      Lambda(test_passing),
      Lambda(test_failing),
      BoundMethod("test_passing", Just("A test that passes"), test_passing) }

InitRunTest == Init

NextRunTest ==
    \E s \in Setups, f \in TestFuncs, t \in Teardowns : run_test(s, f, t)

SpecRunTest == InitRunTest /\ [][NextRunTest]_vars

---------------------------------------------------------------------------
(* TestRunner (runner.py) and the decorators (agent_test.py)               *)
(*                                                                         *)
(* A method is a record of its name, docstring, how its body ends, and the *)
(* attributes the decorators set on it.  A parametrised method's body ends *)
(* as its parameter set decides: the parameter sets are given as the ways  *)
(* the body ends on them.                                                  *)

MaxMethods == 2
MaxClasses == 2

Method(name, doc, body) ==
    [name |-> name, doc |-> doc, body |-> body, is_agent_test |-> FALSE,
     skip |-> PyNone, parametrize |-> PyNone]

\* the decorators: each sets attributes on the function and returns it
test_agent(func) == [func EXCEPT !.is_agent_test = TRUE]
skip_test(reason, func) == [func EXCEPT !.skip = Just(reason)]
parametrize(params, func) == [func EXCEPT !.parametrize = Just(params)]

\* a subclass of AgentTest: its hooks and the methods it defines
TestClass(name, setup, teardown, methods) ==
    [name |-> name, setup |-> setup, teardown |-> teardown, methods |-> methods]

\* the methods in the order dir() lists their names (sorted)
RECURSIVE SortedByName(_)
SortedByName(methods) ==
    IF methods = {} THEN <<>>
    ELSE LET NameOrder ==
                 <<"check_agent", "test_later", "test_later_blank",
                   "test_later_cases", "test_marked_skip_only", "test_params",
                   "test_plain_fail", "test_plain_pass", "test_unmarked">>
             Rank(name) == CHOOSE i \in 1..Len(NameOrder) : NameOrder[i] = name
             first == CHOOSE m \in methods :
                          \A o \in methods : Rank(m.name) <= Rank(o.name)
         IN <<first>> \o SortedByName(methods \ {first})

\* name.startswith("test_"), of the names used
IsTestMethod(m) == m.name # "check_agent"

\* the bound methods _run_test_class collects from dir(test_instance)
test_methods(test_class) == SelectSeq(SortedByName(test_class.methods), IsTestMethod)

\* what the loop body does for one method (Steps): nothing, one result built
\* without a call, or one run_test call per parameter set or for the method
Skip(method, result) ==
    [method |-> method, skipped |-> TRUE, result |-> result,
     test_func |-> Lambda(Returns(PyNone))]
Run(method, test_func) ==
    [method |-> method, skipped |-> FALSE,
     result |-> TestResult(method, "", "", PyNone, PyNone, {}), test_func |-> test_func]

\* (mutant) the skip mark is not looked at: a skipped method is run
StepsIgnoringSkip(m) ==
    IF ~m.is_agent_test THEN <<>>
    ELSE IF ~m.parametrize.isNone
    THEN [p \in 1..Len(m.parametrize.val) |->
            Run(m.name, Function("<lambda>", PyNone, m.parametrize.val[p]))]
    ELSE <<Run(m.name, BoundMethod(m.name, m.doc, m.body))>>

Steps(m) ==
    IF ~m.is_agent_test THEN <<>>
    ELSE IF ~m.skip.isNone
    THEN <<Skip(m.name, TestResult(m.name, "skipped", "0.0", PyNone, m.skip, {}))>>
    ELSE IF ~m.parametrize.isNone
    THEN [p \in 1..Len(m.parametrize.val) |->
            Run(m.name, Function("<lambda>", PyNone, m.parametrize.val[p]))]
    ELSE <<Run(m.name, BoundMethod(m.name, m.doc, m.body))>>

\* a run of _run_test_class so far: the results list, the instance's own
\* results, what was invoked, and the exception that ended it, if any
NewRun == [results |-> <<>>, instance |-> <<>>, hooks |-> <<>>, ended |-> Returns(PyNone)]

RECURSIVE RunSteps(_, _, _, _)
RunSteps(test_class, steps, i, run) ==
    IF i > Len(steps) THEN run
    ELSE IF steps[i].skipped
    THEN RunSteps(test_class, steps, i + 1,
                  [run EXCEPT !.results = Append(@, steps[i].result)])
    ELSE LET f == steps[i].test_func
             outcome == Finally(Handled(f, Attempt(test_class.setup, f)),
                                test_class.teardown)
             \* the hooks and the body the call invokes, each with the
             \* method the call is for
             calls == Invoked(test_class.setup, f)
             called == run.hooks \o [c \in 1..Len(calls) |->
                           [call |-> calls[c], method |-> steps[i].method]]
         IN IF outcome.kind = "raise"
            THEN [run EXCEPT !.hooks = called, !.ended = outcome]
            ELSE RunSteps(test_class, steps, i + 1,
                          [run EXCEPT !.results = Append(@, outcome.val),
                                      !.instance = Append(@, outcome.val),
                                      !.hooks = called])

\* the loop of _run_test_class over the collected methods from method i on
RECURSIVE RunMethods(_, _, _, _)
RunMethods(test_class, methods, i, run) ==
    IF i > Len(methods) \/ run.ended.kind = "raise" THEN run
    ELSE RunMethods(test_class, methods, i + 1,
                    RunSteps(test_class, Steps(methods[i]), 1, run))

\* TestRunner._run_test_class on a fresh instance of test_class
RunTestClass(test_class) ==
    RunMethods(test_class, test_methods(test_class), 1, NewRun)

CountStatus(rs, status) == Cardinality({i \in 1..Len(rs) : rs[i].status = status})

\* the loop of run_all over self.test_classes from class i on
RECURSIVE RunClasses(_, _, _)
RunClasses(test_classes, i, all) ==
    IF i > Len(test_classes) THEN all
    ELSE LET run == RunTestClass(test_classes[i])
         IN IF run.ended.kind = "raise"
            THEN [all EXCEPT !.hooks = @ \o run.hooks, !.ended = run.ended]
            ELSE RunClasses(test_classes, i + 1,
                            [all EXCEPT !.results = @ \o run.results,
                                        !.hooks = @ \o run.hooks])

\* the dict run_all returns (its duration left out)
Summary(all_results) ==
    [results |-> all_results,
     total |-> Len(all_results),
     passed |-> CountStatus(all_results, "passed"),
     failed |-> CountStatus(all_results, "failed"),
     skipped |-> CountStatus(all_results, "skipped")]

\* TestRunner.run_all over self.test_classes as discovered
run_all ==
    /\ LET all == RunClasses(op.test_classes, 1, NewRun)
       IN /\ ret' = IF all.ended.kind = "raise" THEN all.ended
                    ELSE Returns(Summary(all.results))
          /\ hooks' = all.hooks
    /\ op' = [name |-> "run_all", test_classes |-> op.test_classes, which |-> 0]
    /\ UNCHANGED <<responses, call_history, default_response, shaped, invoked,
                   given_default, results>>

\* TestRunner._run_test_class(test_instance), the instance freshly made from
\* the i-th discovered class
run_test_class(i) ==
    /\ i <= Len(op.test_classes)
    /\ LET run == RunTestClass(op.test_classes[i])
       IN /\ ret' = IF run.ended.kind = "raise" THEN run.ended
                    ELSE Returns(Summary(run.results))
          /\ hooks' = run.hooks
          /\ results' = run.instance
    /\ op' = [name |-> "_run_test_class", test_classes |-> op.test_classes, which |-> i]
    /\ UNCHANGED <<responses, call_history, default_response, shaped, invoked,
                   given_default>>

(* Inputs: the methods a test class may define, the classes discovered *)

Later == <<"later">>

MethodPool ==
    { test_agent(Method("test_plain_pass", Just("passes"), Returns(PyNone))),
      test_agent(Method("test_plain_fail", PyNone, assert_equals("1", "2"))),
      skip_test(Later, test_agent(Method("test_later", PyNone,
                                         Raises("RuntimeError", <<"not yet">>)))),
      test_agent(skip_test(<<>>, Method("test_later_blank", PyNone, Returns(PyNone)))),
      skip_test(Later,
                parametrize(<<Returns(PyNone), Returns(PyNone)>>,
                            test_agent(Method("test_later_cases", PyNone,
                                              Returns(PyNone))))),
      skip_test(Later, Method("test_marked_skip_only", PyNone, Returns(PyNone))),
      parametrize(<<Returns(PyNone), assert_equals("1", "2")>>,
                  test_agent(Method("test_params", PyNone, Returns(PyNone)))),
      Method("test_unmarked", PyNone, Returns(PyNone)),
      test_agent(Method("check_agent", PyNone, Returns(PyNone))) }

TestClasses ==
    { TestClass("SampleAgentTest", s, t, ms) :
        s \in Setups, t \in Teardowns,
        ms \in {ms \in SUBSET MethodPool : Cardinality(ms) <= MaxMethods} }

\* classes that are discovered together
Suites ==
    { TestClass("TestBasicAgent", Returns(PyNone), Returns(PyNone),
                {m \in MethodPool : m.name \in {"test_plain_pass", "test_later"}}),
      TestClass("TestSkipped", Returns(PyNone), Returns(PyNone),
                {m \in MethodPool : m.name \in {"test_later_blank", "test_later_cases"}}),
      TestClass("TestBroken", Returns(PyNone), Raises("RuntimeError", <<"cleanup failed">>),
                {m \in MethodPool : m.name \in {"test_later", "test_params"}}),
      TestClass("TestEmpty", Returns(PyNone), Returns(PyNone), {}) }

RECURSIVE ListsOf(_, _)
ListsOf(S, n) ==
    IF n = 0 THEN {<<>>}
    ELSE ListsOf(S, n - 1)
         \cup {Append(l, c) : l \in {l \in ListsOf(S, n - 1) : Len(l) = n - 1}, c \in S}

\* the runner after discover_tests: self.test_classes is set
InitRunner ==
    /\ \/ \E c \in TestClasses :
             op = [name |-> "discover_tests", test_classes |-> <<c>>, which |-> 0]
       \/ \E cs \in ListsOf(Suites, MaxClasses) :
             op = [name |-> "discover_tests", test_classes |-> cs, which |-> 0]
    /\ ret = Nothing
    /\ responses = <<>>
    /\ call_history = <<>>
    /\ default_response = StrResponse("Mock response")
    /\ shaped = NoShape
    /\ invoked = <<>>
    /\ given_default = NoResponse
    /\ results = <<>>
    /\ hooks = <<>>

NextRunner ==
    \/ run_all
    \/ \E i \in 1..MaxClasses : run_test_class(i)

SpecRunner == InitRunner /\ [][NextRunner]_vars

---------------------------------------------------------------------------
(* Python's str methods, on strings that are sequences of characters.  A   *)
(* letter outside ASCII is a character with a name: "SIGMA" is the capital *)
(* Greek sigma, "sigma" and "final_sigma" its two small forms; "BACKTICK"  *)
(* is the grave accent.                                                    *)

MaxLen == 3

\* set(...) of a list
SetOf(list) == {list[i] : i \in 1..Len(list)}

SmallLetters ==
    <<"a", "b", "c", "d", "e", "f", "g", "h", "i", "j", "k", "l", "m",
      "n", "o", "p", "q", "r", "s", "t", "u", "v", "w", "x", "y", "z">>
CapitalLetters ==
    <<"A", "B", "C", "D", "E", "F", "G", "H", "I", "J", "K", "L", "M",
      "N", "O", "P", "Q", "R", "S", "T", "U", "V", "W", "X", "Y", "Z">>
Letters == SetOf(SmallLetters) \cup SetOf(CapitalLetters)
Digits == {"0", "1", "2", "3", "4", "5", "6", "7", "8", "9"}

\* the small letter of each capital but the sigma, whose small form depends
\* on where it stands
SmallOf ==
    [c \in SetOf(CapitalLetters) |->
        SmallLetters[CHOOSE i \in 1..Len(CapitalLetters) : CapitalLetters[i] = c]]

Cased(ch) == ch \in Letters \cup {"SIGMA", "sigma", "final_sigma"}
CaseIgnorable(ch) == ch \in {".", "'", ":"}

\* the capital sigma at i follows a cased letter and is followed by none,
\* case-ignorable characters aside
FinalSigma(s, i) ==
    /\ \E j \in 1..(i - 1) :
          Cased(s[j]) /\ \A k \in (j + 1)..(i - 1) : CaseIgnorable(s[k])
    /\ ~ \E j \in (i + 1)..Len(s) :
          Cased(s[j]) /\ \A k \in (i + 1)..(j - 1) : CaseIgnorable(s[k])

\* str.lower()
str_lower(s) ==
    [i \in 1..Len(s) |->
        IF s[i] = "SIGMA"
        THEN IF FinalSigma(s, i) THEN "final_sigma" ELSE "sigma"
        ELSE IF s[i] \in DOMAIN SmallOf THEN SmallOf[s[i]] ELSE s[i]]

IsSpace(ch) == ch \in {" ", "\t", "\n"}

\* str.strip()
RECURSIVE str_strip(_)
str_strip(s) ==
    IF Len(s) = 0 THEN s
    ELSE IF IsSpace(s[1]) THEN str_strip(Tail(s))
    ELSE IF IsSpace(s[Len(s)]) THEN str_strip(SubSeq(s, 1, Len(s) - 1))
    ELSE s

\* the pieces of s between the characters that satisfy the separator test;
\* word is the piece being read
RECURSIVE PiecesFrom(_, _, _, _)
PiecesFrom(s, i, word, seps) ==
    IF i > Len(s) THEN <<word>>
    ELSE IF s[i] \in seps THEN <<word>> \o PiecesFrom(s, i + 1, <<>>, seps)
    ELSE PiecesFrom(s, i + 1, Append(word, s[i]), seps)

NonEmpty(pieces) == SelectSeq(pieces, LAMBDA p : Len(p) > 0)

\* str.split(): the words between runs of whitespace, none of them empty
str_split(s) == NonEmpty(PiecesFrom(s, 1, <<>>, {" ", "\t", "\n"}))

\* `needle in haystack`, for two strs
IsIn(needle, haystack) ==
    \E i \in 1..(Len(haystack) - Len(needle) + 1) :
        SubSeq(haystack, i, i + Len(needle) - 1) = needle

---------------------------------------------------------------------------
(* Thresholds and scores: a float is the fraction it was written as, and   *)
(* how it prints                                                           *)

Float(num, den, repr) == [num |-> num, den |-> den, repr |-> repr]

\* a / b, for two counts with b > 0
Ratio(a, b) == [num |-> a, den |-> b]

\* x >= y
AtLeast(x, y) == x.num * y.den >= y.num * x.den

\* x > y
MoreThan(x, y) == x.num * y.den > y.num * x.den

\* f"{x:.2f}": the hundredths nearest to x, as digits (no fraction of two
\* counts below eight lies halfway between two hundredths)
Digit(d) ==
    CASE d = 0 -> "0" [] d = 1 -> "1" [] d = 2 -> "2" [] d = 3 -> "3" [] d = 4 -> "4"
      [] d = 5 -> "5" [] d = 6 -> "6" [] d = 7 -> "7" [] d = 8 -> "8" [] d = 9 -> "9"

Fixed2(x) ==
    LET h == (200 * x.num + x.den) \div (2 * x.den) IN
    <<Digit(h \div 100), ".", Digit((h \div 10) % 10), Digit(h % 10)>>

---------------------------------------------------------------------------
(* The assertions (assertions.py, and AgentTest's methods of the same      *)
(* names).  An assertion returns None or raises; the message of what it    *)
(* raises is the sequence of the pieces the f-string puts together.        *)

Pass == Returns(PyNone)
AssertionFailure(message) == Raises("AssertionError", message)
ValueError(message) == Raises("ValueError", message)

\* assertions.assert_contains
assert_contains(output, expected, case_sensitive) ==
    LET o == IF case_sensitive THEN output ELSE str_lower(output)
        e == IF case_sensitive THEN expected ELSE str_lower(expected)
    IN IF IsIn(e, o) THEN Pass
       ELSE AssertionFailure(<<"Expected '">> \o e
                              \o <<"' not found in output.\nOutput: ">> \o o)

\* AgentTest.assert_contains
AgentTest_assert_contains(output, expected, case_sensitive) ==
    LET o == IF case_sensitive THEN output ELSE str_lower(output)
        e == IF case_sensitive THEN expected ELSE str_lower(expected)
    IN IF IsIn(e, o) THEN Pass
       ELSE AssertionFailure(<<"Expected '">> \o e
                              \o <<"' not found in output.\nOutput: ">> \o o)

\* (mutant) the overlap is measured against the words of both strings
assert_similarity_symmetric(output, expected, min_score) ==
    LET output_words == SetOf(str_split(str_lower(output)))
        expected_words == SetOf(str_split(str_lower(expected)))
    IN IF expected_words = {} THEN Pass
       ELSE LET overlap == Cardinality(output_words \cap expected_words)
                score == Ratio(overlap, Cardinality(output_words \cup expected_words))
            IN IF AtLeast(score, min_score) THEN Pass
               ELSE AssertionFailure(
                        <<"Similarity score ">> \o Fixed2(score)
                        \o <<" < ", min_score.repr, "\nOutput: ">> \o output
                        \o <<"\nExpected: ">> \o expected)

\* AgentTest.assert_similarity
assert_similarity(output, expected, min_score) ==
    LET output_words == SetOf(str_split(str_lower(output)))
        expected_words == SetOf(str_split(str_lower(expected)))
    IN IF expected_words = {} THEN Pass
       ELSE LET overlap == Cardinality(output_words \cap expected_words)
                score == Ratio(overlap, Cardinality(expected_words))
            IN IF AtLeast(score, min_score) THEN Pass
               ELSE AssertionFailure(
                        <<"Similarity score ">> \o Fixed2(score)
                        \o <<" < ", min_score.repr, "\nOutput: ">> \o output
                        \o <<"\nExpected: ">> \o expected)

\* assertions._calculate_similarity
calculate_similarity(str1, str2) ==
    LET words1 == SetOf(str_split(str_lower(str1)))
        words2 == SetOf(str_split(str_lower(str2)))
    IN IF words2 = {} THEN Ratio(0, 1)
       ELSE Ratio(Cardinality(words1 \cap words2), Cardinality(words2))

\* re.search(pattern, s, flags) is truthy: the pattern matches at some
\* position of s; under re.IGNORECASE letters match in either case
ReSearch(items, s) ==
    \E i \in 1..(Len(s) + 1) : ReMatch(items, SubSeq(s, i, Len(s)))

IgnoringCase(s) ==
    [i \in 1..Len(s) |->
        IF s[i] \in {"SIGMA", "final_sigma"} THEN "sigma"
        ELSE IF s[i] \in DOMAIN SmallOf THEN SmallOf[s[i]] ELSE s[i]]

\* (mutant) a mode that is not known is taken for "contains"
assert_agent_response_lenient(output, expected, mode, case_sensitive) ==
    assert_contains(output, expected, case_sensitive)

\* assertions.assert_agent_response
assert_agent_response(output, expected, mode, case_sensitive) ==
    LET lowered == ~case_sensitive /\ mode # "regex"
        o == IF lowered THEN str_lower(output) ELSE output
        e == IF lowered THEN str_lower(expected) ELSE expected
    IN IF mode = "contains"
       THEN IF IsIn(e, o) THEN Pass
            ELSE AssertionFailure(<<"Expected '">> \o e
                                   \o <<"' not found in output.\nOutput: ">> \o o)
       ELSE IF mode = "equals"
       THEN IF o = e THEN Pass
            ELSE AssertionFailure(<<"Output does not match expected.\nExpected: ">>
                                   \o e \o <<"\nActual: ">> \o o)
       ELSE IF mode = "regex"
       THEN IF CompileFails(e) THEN Raises("re.error", <<"nothing to repeat">>)
            ELSE IF \/ case_sensitive /\ ReSearch(Compile(e), o)
                    \/ ~case_sensitive
                       /\ ReSearch(Compile(IgnoringCase(e)), IgnoringCase(o))
            THEN Pass
            ELSE AssertionFailure(<<"Pattern '">> \o e
                                   \o <<"' not found in output.\nOutput: ">> \o o)
       ELSE IF mode = "similarity"
       THEN LET score == calculate_similarity(o, e) IN
            IF AtLeast(score, Ratio(4, 5)) THEN Pass
            ELSE AssertionFailure(<<"Similarity score ">> \o Fixed2(score)
                                   \o <<" < 0.8\nOutput: ">> \o o
                                   \o <<"\nExpected: ">> \o e)
       ELSE ValueError(<<"Unknown mode: ", mode>>)

\* assertions.assert_list_length
assert_list_length(items, expected_length, mode) ==
    LET actual_length == Len(items) IN
    IF mode = "exact"
    THEN IF actual_length = expected_length THEN Pass
         ELSE AssertionFailure(<<"List length ", Digit(actual_length),
                                 ", expected ", Digit(expected_length)>>)
    ELSE IF mode = "min"
    THEN IF actual_length >= expected_length THEN Pass
         ELSE AssertionFailure(<<"List length ", Digit(actual_length),
                                 ", expected >= ", Digit(expected_length)>>)
    ELSE IF mode = "max"
    THEN IF actual_length <= expected_length THEN Pass
         ELSE AssertionFailure(<<"List length ", Digit(actual_length),
                                 ", expected <= ", Digit(expected_length)>>)
    ELSE ValueError(<<"Unknown mode: ", mode>>)

\* re.split(r'[.!?]+', output): the pieces between runs of terminators;
\* after_sep tells that the character before i was a terminator
RECURSIVE SplitRuns(_, _, _, _)
SplitRuns(s, i, word, after_sep) ==
    IF i > Len(s) THEN <<word>>
    ELSE IF s[i] \in {".", "!", "?"}
         THEN IF after_sep THEN SplitRuns(s, i + 1, <<>>, TRUE)
              ELSE <<word>> \o SplitRuns(s, i + 1, <<>>, TRUE)
         ELSE SplitRuns(s, i + 1, Append(word, s[i]), FALSE)

re_split(output) == SplitRuns(output, 1, <<>>, FALSE)

\* [s.strip() for s in sentences if s.strip()]
Stripped(pieces) ==
    NonEmpty([i \in 1..Len(pieces) |-> str_strip(pieces[i])])

\* (mutant) half of the sentence's words is enough
GroundedAtHalf(sentence, source_docs) ==
    LET words == SetOf(str_split(str_lower(sentence))) IN
    \E d \in 1..Len(source_docs) :
        LET doc_words == SetOf(str_split(str_lower(source_docs[d])))
            overlap == Cardinality(words \cap doc_words)
        IN AtLeast(Ratio(overlap, Cardinality(words)), Ratio(1, 2))

\* more than half of the sentence's words are words of one of the documents
Grounded(sentence, source_docs) ==
    LET words == SetOf(str_split(str_lower(sentence))) IN
    \E d \in 1..Len(source_docs) :
        LET doc_words == SetOf(str_split(str_lower(source_docs[d])))
            overlap == Cardinality(words \cap doc_words)
        IN MoreThan(Ratio(overlap, Cardinality(words)), Ratio(1, 2))

\* (mutant) no sentence at all counts as every sentence grounded
grounding_ratio_vacuous(grounded_count, sentences) ==
    IF Len(sentences) > 0 THEN Ratio(grounded_count, Len(sentences)) ELSE Ratio(1, 1)

\* grounded_count / len(sentences) if sentences else 0
grounding_ratio(grounded_count, sentences) ==
    IF Len(sentences) > 0 THEN Ratio(grounded_count, Len(sentences)) ELSE Ratio(0, 1)

\* assertions.assert_no_hallucination
assert_no_hallucination(output, source_docs, threshold) ==
    LET sentences == Stripped(re_split(output))
        grounded_count ==
            Cardinality({i \in 1..Len(sentences) : Grounded(sentences[i], source_docs)})
        ratio == grounding_ratio(grounded_count, sentences)
    IN IF AtLeast(ratio, threshold) THEN Pass
       ELSE AssertionFailure(
                <<"Grounding ratio ">> \o Fixed2(ratio)
                \o <<" < ", threshold.repr,
                     "\nOutput may contain hallucinations.\nOutput: ">> \o output)

---------------------------------------------------------------------------
(* assert_no_pii: the four patterns, each as the condition under which     *)
(* re.search finds a match                                                 *)

\* \w, and \b before position i (after the last character when i = Len + 1)
IsWord(s, i) ==
    i >= 1 /\ i <= Len(s) /\ s[i] \in Letters \cup Digits \cup {"_"}
Boundary(s, i) == IsWord(s, i - 1) # IsWord(s, i)

\* \d{n} at positions i .. i + n - 1
DigitsAt(s, i, n) == i + n - 1 <= Len(s) /\ \A k \in i..(i + n - 1) : s[k] \in Digits

\* groups of digits of the given sizes from position i on, each group but
\* the first after at most one separator; the position after the last group
RECURSIVE AfterGroups(_, _, _, _)
AfterGroups(s, i, sizes, seps) ==
    IF Len(sizes) = 0 THEN i
    ELSE IF DigitsAt(s, i, Head(sizes))
         THEN LET j == i + Head(sizes) IN
              IF Len(sizes) = 1 THEN j
              ELSE IF j <= Len(s) /\ s[j] \in seps
                   THEN AfterGroups(s, j + 1, Tail(sizes), seps)
                   ELSE AfterGroups(s, j, Tail(sizes), seps)
         ELSE 0

\* \b<groups>\b matches somewhere in s
GroupsFound(s, sizes, seps) ==
    \E i \in 1..Len(s) :
        /\ Boundary(s, i)
        /\ LET j == AfterGroups(s, i, sizes, seps) IN j # 0 /\ Boundary(s, j)

\* r'\b\d{3}[-.]?\d{3}[-.]?\d{4}\b'
PhoneFound(s) == GroupsFound(s, <<3, 3, 4>>, {"-", "."})

\* r'\b\d{3}-\d{2}-\d{4}\b'
SsnFound(s) ==
    \E i \in 1..Len(s) :
        /\ Boundary(s, i)
        /\ DigitsAt(s, i, 3) /\ i + 3 <= Len(s) /\ s[i + 3] = "-"
        /\ DigitsAt(s, i + 4, 2) /\ i + 6 <= Len(s) /\ s[i + 6] = "-"
        /\ DigitsAt(s, i + 7, 4)
        /\ Boundary(s, i + 11)

\* r'\b\d{4}[-\s]?\d{4}[-\s]?\d{4}[-\s]?\d{4}\b'
CreditCardFound(s) == GroupsFound(s, <<4, 4, 4, 4>>, {"-", " ", "\t", "\n"})

\* r'\b[A-Za-z0-9._%+-]+@[A-Za-z0-9.-]+\.[A-Z|a-z]{2,}\b'
EmailFound(s) ==
    LET local == Letters \cup Digits \cup {".", "_", "%", "+", "-"}
        domain == Letters \cup Digits \cup {".", "-"}
        tld == Letters \cup {"|"}
    IN \E at \in 2..Len(s) :
        /\ s[at] = "@"
        /\ \E i \in 1..(at - 1) :
              Boundary(s, i) /\ \A k \in i..(at - 1) : s[k] \in local
        /\ \E d \in (at + 2)..Len(s) :
              /\ s[d] = "."
              /\ \A k \in (at + 1)..(d - 1) : s[k] \in domain
              /\ \E e \in (d + 2)..Len(s) :
                    Boundary(s, e + 1) /\ \A k \in (d + 1)..e : s[k] \in tld

\* patterns, in the order of the dict
PiiTypes == <<"email", "phone", "ssn", "credit_card">>

PiiFound(pii_type, output) ==
    CASE pii_type = "email" -> EmailFound(output)
      [] pii_type = "phone" -> PhoneFound(output)
      [] pii_type = "ssn" -> SsnFound(output)
      [] pii_type = "credit_card" -> CreditCardFound(output)

\* (mutant) the scan stops at the first pattern that matches
found_pii_first(output) ==
    LET hits == SelectSeq(PiiTypes, LAMBDA t : PiiFound(t, output)) IN
    IF Len(hits) = 0 THEN hits ELSE <<hits[1]>>

\* found_pii after the loop over the patterns
found_pii(output) == SelectSeq(PiiTypes, LAMBDA t : PiiFound(t, output))

RECURSIVE JoinNames(_, _)
JoinNames(sep, names) ==
    IF Len(names) = 0 THEN <<>>
    ELSE IF Len(names) = 1 THEN <<names[1]>>
    ELSE <<names[1], sep>> \o JoinNames(sep, Tail(names))

\* assertions.assert_no_pii
assert_no_pii(output) ==
    LET found == found_pii(output) IN
    IF Len(found) = 0 THEN Pass
    ELSE AssertionFailure(<<"PII detected in output: ">> \o JoinNames(", ", found)
                           \o <<"\nOutput: ">> \o output)

---------------------------------------------------------------------------
(* json.loads, on the part of JSON made of objects, arrays, strings        *)
(* without escapes, integers without a sign (a zero stands alone), true,   *)
(* false and null                                                          *)

JObject(members) == [kind |-> "object", members |-> members]
JArray(items) == [kind |-> "array", items |-> items]
JString(chars) == [kind |-> "string", chars |-> chars]
JInt(digits) == [kind |-> "integer", digits |-> digits]
JBool(b) == [kind |-> "boolean", b |-> b]
JNull == [kind |-> "null"]

Member(key, value) == [key |-> key, value |-> value]

\* `key in data` and data[key], for a dict (the value given last stands)
HasMember(data, key) == \E i \in 1..Len(data.members) : data.members[i].key = key
GetMember(data, key) ==
    LET last == CHOOSE i \in 1..Len(data.members) :
                    /\ data.members[i].key = key
                    /\ \A j \in (i + 1)..Len(data.members) : data.members[j].key # key
    IN data.members[last].value

Parsed(value, next) == [ok |-> TRUE, val |-> value, next |-> next, error |-> ""]
DecodeError(error) == [ok |-> FALSE, val |-> JNull, next |-> 0, error |-> error]

RECURSIVE SkipSpace(_, _)
SkipSpace(s, i) ==
    IF i <= Len(s) /\ s[i] \in {" ", "\t", "\n", "\r"} THEN SkipSpace(s, i + 1) ELSE i

\* the characters from i up to the closing quote
RECURSIVE StringFrom(_, _, _)
StringFrom(s, i, chars) ==
    IF i > Len(s) THEN DecodeError("Unterminated string starting at")
    ELSE IF s[i] = "\"" THEN Parsed(chars, i + 1)
    ELSE StringFrom(s, i + 1, Append(chars, s[i]))

RECURSIVE DigitsFrom(_, _, _)
DigitsFrom(s, i, digits) ==
    IF i <= Len(s) /\ s[i] \in Digits THEN DigitsFrom(s, i + 1, Append(digits, s[i]))
    ELSE Parsed(JInt(digits), i)

StartsWith(s, i, word) ==
    i + Len(word) - 1 <= Len(s) /\ SubSeq(s, i, i + Len(word) - 1) = word

RECURSIVE ValueFrom(_, _)
RECURSIVE MembersFrom(_, _, _)
RECURSIVE ItemsFrom(_, _, _)

\* the value that starts at position i
ValueFrom(s, i) ==
    IF i > Len(s) THEN DecodeError("Expecting value")
    ELSE IF s[i] = "{"
    THEN LET j == SkipSpace(s, i + 1) IN
         IF j <= Len(s) /\ s[j] = "}" THEN Parsed(JObject(<<>>), j + 1)
         ELSE MembersFrom(s, j, <<>>)
    ELSE IF s[i] = "["
    THEN LET j == SkipSpace(s, i + 1) IN
         IF j <= Len(s) /\ s[j] = "]" THEN Parsed(JArray(<<>>), j + 1)
         ELSE ItemsFrom(s, j, <<>>)
    ELSE IF s[i] = "\""
    THEN LET str == StringFrom(s, i + 1, <<>>) IN
         IF str.ok THEN Parsed(JString(str.val), str.next) ELSE str
    ELSE IF s[i] = "0" THEN Parsed(JInt(<<"0">>), i + 1)
    ELSE IF s[i] \in Digits THEN DigitsFrom(s, i, <<>>)
    ELSE IF StartsWith(s, i, <<"t", "r", "u", "e">>) THEN Parsed(JBool(TRUE), i + 4)
    ELSE IF StartsWith(s, i, <<"f", "a", "l", "s", "e">>) THEN Parsed(JBool(FALSE), i + 5)
    ELSE IF StartsWith(s, i, <<"n", "u", "l", "l">>) THEN Parsed(JNull, i + 4)
    ELSE DecodeError("Expecting value")

\* the members of an object from position i on, up to its closing brace
MembersFrom(s, i, members) ==
    IF i > Len(s) \/ s[i] # "\""
    THEN DecodeError("Expecting property name enclosed in double quotes")
    ELSE LET key == StringFrom(s, i + 1, <<>>) IN
         IF ~key.ok THEN key
         ELSE LET c == SkipSpace(s, key.next) IN
              IF c > Len(s) \/ s[c] # ":" THEN DecodeError("Expecting ':' delimiter")
              ELSE LET value == ValueFrom(s, SkipSpace(s, c + 1)) IN
                   IF ~value.ok THEN value
                   ELSE LET e == SkipSpace(s, value.next)
                            so_far == Append(members, Member(key.val, value.val))
                        IN IF e <= Len(s) /\ s[e] = "}"
                           THEN Parsed(JObject(so_far), e + 1)
                           ELSE IF e <= Len(s) /\ s[e] = ","
                           THEN MembersFrom(s, SkipSpace(s, e + 1), so_far)
                           ELSE DecodeError("Expecting ',' delimiter")

\* the items of an array from position i on, up to its closing bracket
ItemsFrom(s, i, items) ==
    LET value == ValueFrom(s, i) IN
    IF ~value.ok THEN value
    ELSE LET e == SkipSpace(s, value.next)
             so_far == Append(items, value.val)
         IN IF e <= Len(s) /\ s[e] = "]" THEN Parsed(JArray(so_far), e + 1)
            ELSE IF e <= Len(s) /\ s[e] = ","
            THEN ItemsFrom(s, SkipSpace(s, e + 1), so_far)
            ELSE DecodeError("Expecting ',' delimiter")

\* json.loads(output): one value, with nothing but whitespace around it
json_loads(output) ==
    LET value == ValueFrom(output, SkipSpace(output, 1)) IN
    IF ~value.ok THEN value
    ELSE IF SkipSpace(output, value.next) <= Len(output) THEN DecodeError("Extra data")
    ELSE value

---------------------------------------------------------------------------
(* assert_json_valid and _validate_schema.  A schema is a dict: the keys   *)
(* it has, and the values of "type", "properties" (in the dict's order)    *)
(* and "required".                                                         *)

Schema(keys, type, properties, required) ==
    [isNone |-> FALSE, keys |-> keys, type |-> type, properties |-> properties,
     required |-> required]
NoSchema == [isNone |-> TRUE, keys |-> {}]

Property(key, value_schema) == [key |-> key, value_schema |-> value_schema]

\* isinstance(data, type_map[expected_type]); a bool is an int
TypeMapKeys == {"object", "array", "string", "number", "integer", "boolean", "null"}

IsInstance(data, expected_type) ==
    CASE expected_type = "object" -> data.kind = "object"
      [] expected_type = "array" -> data.kind = "array"
      [] expected_type = "string" -> data.kind = "string"
      [] expected_type = "number" -> data.kind \in {"integer", "boolean"}
      [] expected_type = "integer" -> data.kind \in {"integer", "boolean"}
      [] expected_type = "boolean" -> data.kind = "boolean"
      [] expected_type = "null" -> data.kind = "null"

\* type(data).__name__
TypeName(data) ==
    CASE data.kind = "object" -> "dict"
      [] data.kind = "array" -> "list"
      [] data.kind = "string" -> "str"
      [] data.kind = "integer" -> "int"
      [] data.kind = "boolean" -> "bool"
      [] data.kind = "null" -> "NoneType"

RECURSIVE validate_schema(_, _)
RECURSIVE ValidateProperties(_, _, _)

\* the loop over schema["properties"].items(), from its i-th item on
ValidateProperties(data, schema, i) ==
    IF i > Len(schema.properties) THEN Pass
    ELSE LET key == schema.properties[i].key
             value_schema == schema.properties[i].value_schema
         IN IF /\ "required" \in schema.keys
               /\ \E r \in 1..Len(schema.required) : schema.required[r] = key
               /\ ~HasMember(data, key)
            THEN AssertionFailure(<<"Required property '">> \o key \o <<"' missing">>)
            ELSE IF HasMember(data, key)
            THEN LET inner == validate_schema(GetMember(data, key), value_schema) IN
                 IF inner.kind = "raise" THEN inner
                 ELSE ValidateProperties(data, schema, i + 1)
            ELSE ValidateProperties(data, schema, i + 1)

\* assertions._validate_schema
validate_schema(data, schema) ==
    IF /\ "type" \in schema.keys
       /\ schema.type \in TypeMapKeys
       /\ ~IsInstance(data, schema.type)
    THEN AssertionFailure(<<"Expected type ", schema.type, ", got ", TypeName(data)>>)
    ELSE IF "properties" \in schema.keys /\ data.kind = "object"
    THEN ValidateProperties(data, schema, 1)
    ELSE Pass

\* `if schema:` - neither None nor an empty dict
Truthy(schema) == ~schema.isNone /\ schema.keys # {}

\* assertions.assert_json_valid
assert_json_valid(output, schema) ==
    LET data == json_loads(output) IN
    IF ~data.ok
    THEN AssertionFailure(<<"Output is not valid JSON: ", data.error>>)
    ELSE IF Truthy(schema) THEN validate_schema(data.val, schema)
    ELSE Pass

\* assertions.assert_format; whether yaml.safe_load and ET.fromstring accept
\* the text is the libraries' business and comes as the argument `accepted`
assert_format(output, format_type, accepted) ==
    IF format_type = "json"
    THEN LET data == json_loads(output) IN
         IF data.ok THEN Pass ELSE AssertionFailure(<<"Invalid JSON: ", data.error>>)
    ELSE IF format_type = "yaml"
    THEN IF accepted THEN Pass ELSE AssertionFailure(<<"Invalid YAML: ", "<yaml error>">>)
    ELSE IF format_type = "markdown"
    THEN IF \E marker \in {<<"#">>, <<"*", "*">>, <<"*">>, <<"-">>, <<"BACKTICK", "BACKTICK", "BACKTICK">>} :
               IsIn(marker, output)
         THEN Pass
         ELSE AssertionFailure(<<"Output does not appear to be Markdown">>)
    ELSE IF format_type = "html"
    THEN IF IsIn(<<"<">>, output) /\ IsIn(<<">">>, output) THEN Pass
         ELSE AssertionFailure(<<"Output does not appear to be HTML">>)
    ELSE IF format_type = "xml"
    THEN IF accepted THEN Pass ELSE AssertionFailure(<<"Invalid XML: ", "<xml error>">>)
    ELSE ValueError(<<"Unknown format: ", format_type>>)

---------------------------------------------------------------------------
(* The assertions applied: a call is drawn at the start and then made once *)

MaxItems == 2
MaxPieces == 2

StringsOver(alphabet, n) == UNION {[1..k -> alphabet] : k \in 0..n}

HelloWorld == <<"H", "e", "l", "l", "o", " ", "W", "o", "r", "l", "d">>
world == <<"w", "o", "r", "l", "d">>

ContainsTexts == StringsOver({"a", "A", "SIGMA"}, MaxLen) \cup {HelloWorld, world}
SimilarityTexts == StringsOver({"a", "B", " "}, MaxLen)
MinScores ==
    {Float(0, 1, "0"), Float(1, 2, "0.5"), Float(4, 5, "0.8"), Float(1, 1, "1.0")}

ResponseTexts == StringsOver({"a", "A", " "}, MaxLen - 1)
ResponsePatterns == {<<"a", ".", "*">>, <<"*", "a">>}
ResponseModes == {"contains", "equals", "regex", "similarity", "fuzzy", "Contains"}

LengthModes == {"exact", "min", "max", "between", "EXACT"}

HallucinationOutputs == StringsOver({"a", "b", " ", ".", "?"}, MaxLen)
SourceDocs == {<<>>, <<<<"a">>>>, <<<<"b">>, <<"A", " ", "b">>>>}
Thresholds ==
    {Float(0, 1, "0"), Float(1, 10, "0.1"), Float(7, 10, "0.7"), Float(1, 1, "1.0")}

PiiPieces ==
    { <<"a", "@", "b", ".", "c", "c">>,
      <<"5", "5", "5", "-", "1", "2", "3", "-", "4", "5", "6", "7">>,
      <<"1", "2", "3", "-", "4", "5", "-", "6", "7", "8", "9">>,
      <<"1", "2", "3", "4", "5", "6", "7", "8", "1", "2", "3", "4", "5", "6", "7", "8">>,
      <<"n", "o">> }

\* up to n pieces, each put after the text so far with or without a space
RECURSIVE PiiTexts(_)
PiiTexts(n) ==
    IF n = 0 THEN {<<>>}
    ELSE LET shorter == PiiTexts(n - 1) IN
         shorter \cup {t \o sep \o p : t \in shorter, sep \in {<<>>, <<" ">>},
                                      p \in PiiPieces}

\* json.dumps, to write the documents
RECURSIVE Dump(_)
RECURSIVE DumpAll(_, _)
DumpAll(values, i) ==
    IF i > Len(values) THEN <<>>
    ELSE (IF i > 1 THEN <<",", " ">> ELSE <<>>)
         \o (IF "key" \in DOMAIN values[i]
             THEN <<"\"">> \o values[i].key \o <<"\"", ":", " ">> \o Dump(values[i].value)
             ELSE Dump(values[i]))
         \o DumpAll(values, i + 1)
Dump(v) ==
    CASE v.kind = "object" -> <<"{">> \o DumpAll(v.members, 1) \o <<"}">>
      [] v.kind = "array" -> <<"[">> \o DumpAll(v.items, 1) \o <<"]">>
      [] v.kind = "string" -> <<"\"">> \o v.chars \o <<"\"">>
      [] v.kind = "integer" -> v.digits
      [] v.kind = "boolean" -> IF v.b THEN <<"t", "r", "u", "e">>
                               ELSE <<"f", "a", "l", "s", "e">>
      [] v.kind = "null" -> <<"n", "u", "l", "l">>

One == JInt(<<"1">>)

JsonValues ==
    { JObject(<<>>),
      JObject(<<Member(<<"a">>, One)>>),
      JObject(<<Member(<<"b">>, One)>>),
      JObject(<<Member(<<"a">>, JObject(<<>>))>>),
      JObject(<<Member(<<"a">>, JObject(<<Member(<<"b">>, One)>>))>>),
      JObject(<<Member(<<"a">>, JObject(<<Member(<<"b">>, JNull)>>)),
                Member(<<"b">>, JString(<<"x">>))>>),
      JObject(<<Member(<<"a">>, JNull)>>),
      JArray(<<One, JBool(TRUE)>>),
      JString(<<"a">>),
      JInt(<<"1", "0">>) }

JsonTexts ==
    {Dump(v) : v \in JsonValues}
    \cup { <<>>, <<"n", "o", "t">>, <<"{", "a", "}">>, <<"0", "1">>,
           <<"{", "\"", "a", "\"", ":", "1", ",", "}">>,
           <<" ", "{", "\"", "a", "\"", " ", ":", "[", "]", "}", "\n">> }

AnySchema == Schema({"description"}, "", <<>>, <<>>)
IntegerB ==
    Schema({"type", "properties", "required"}, "object",
           <<Property(<<"b">>, Schema({"type"}, "integer", <<>>, <<>>))>>, <<<<"b">>>>)

Schemas ==
    { NoSchema,
      Schema({}, "", <<>>, <<>>),
      Schema({"type"}, "array", <<>>, <<>>),
      Schema({"type"}, "decimal", <<>>, <<>>),
      Schema({"type", "required"}, "object", <<>>, <<<<"a">>>>),
      Schema({"type", "properties", "required"}, "object",
             <<Property(<<"a">>, AnySchema)>>, <<<<"a">>>>),
      Schema({"properties", "required"}, "",
             <<Property(<<"b">>, AnySchema)>>, <<<<"a">>, <<"b">>>>),
      Schema({"properties"}, "",
             <<Property(<<"a">>, Schema({"required"}, "", <<>>, <<<<"b">>>>))>>, <<>>),
      Schema({"properties", "required"}, "",
             <<Property(<<"a">>, IntegerB)>>, <<<<"a">>>>) }

FormatTexts ==
    { Dump(JObject(<<Member(<<"a">>, One)>>)), <<"#", " ", "a">>, <<"a">>,
      <<"<", "a", ">">>, <<"a", ">">>, <<"BACKTICK", "BACKTICK">> }
FormatTypes == {"json", "yaml", "markdown", "html", "xml", "pdf", "JSON"}

\* the assertions are plain functions: a run is one call on given arguments
InitAssertions ==
    /\ \/ \E n \in {"assert_contains", "AgentTest.assert_contains"},
             o \in ContainsTexts, e \in ContainsTexts, c \in BOOLEAN :
               op = [name |-> n, output |-> o, expected |-> e, case_sensitive |-> c]
       \/ \E o \in SimilarityTexts, e \in SimilarityTexts, m \in MinScores :
               op = [name |-> "assert_similarity", output |-> o, expected |-> e,
                     min_score |-> m]
       \/ \E o \in ResponseTexts, e \in ResponseTexts \cup ResponsePatterns,
             m \in ResponseModes, c \in BOOLEAN :
               op = [name |-> "assert_agent_response", output |-> o, expected |-> e,
                     mode |-> m, case_sensitive |-> c]
       \/ \E k \in 0..MaxItems, n \in 0..MaxItems, m \in LengthModes :
               op = [name |-> "assert_list_length", items |-> [i \in 1..k |-> "item"],
                     expected_length |-> n, mode |-> m]
       \/ \E o \in HallucinationOutputs, d \in SourceDocs, t \in Thresholds :
               op = [name |-> "assert_no_hallucination", output |-> o,
                     source_docs |-> d, threshold |-> t]
       \/ \E o \in PiiTexts(MaxPieces) :
               op = [name |-> "assert_no_pii", output |-> o]
       \/ \E o \in JsonTexts, s \in Schemas :
               op = [name |-> "assert_json_valid", output |-> o, schema |-> s]
       \/ \E o \in FormatTexts, f \in FormatTypes, a \in BOOLEAN :
               op = [name |-> "assert_format", output |-> o, format_type |-> f,
                     accepted |-> a]
    /\ ret = Nothing
    /\ responses = <<>>
    /\ call_history = <<>>
    /\ default_response = StrResponse("Mock response")
    /\ shaped = NoShape
    /\ invoked = <<>>
    /\ given_default = NoResponse
    /\ results = <<>>
    /\ hooks = <<>>

Call_assert_contains ==
    /\ op.name = "assert_contains" /\ ret = Nothing
    /\ ret' = assert_contains(op.output, op.expected, op.case_sensitive)
    /\ UNCHANGED <<responses, call_history, default_response, op, shaped, invoked,
                   given_default, results, hooks>>

Call_AgentTest_assert_contains ==
    /\ op.name = "AgentTest.assert_contains" /\ ret = Nothing
    /\ ret' = AgentTest_assert_contains(op.output, op.expected, op.case_sensitive)
    /\ UNCHANGED <<responses, call_history, default_response, op, shaped, invoked,
                   given_default, results, hooks>>

Call_assert_similarity ==
    /\ op.name = "assert_similarity" /\ ret = Nothing
    /\ ret' = assert_similarity(op.output, op.expected, op.min_score)
    /\ UNCHANGED <<responses, call_history, default_response, op, shaped, invoked,
                   given_default, results, hooks>>

Call_assert_agent_response ==
    /\ op.name = "assert_agent_response" /\ ret = Nothing
    /\ ret' = assert_agent_response(op.output, op.expected, op.mode, op.case_sensitive)
    /\ UNCHANGED <<responses, call_history, default_response, op, shaped, invoked,
                   given_default, results, hooks>>

Call_assert_list_length ==
    /\ op.name = "assert_list_length" /\ ret = Nothing
    /\ ret' = assert_list_length(op.items, op.expected_length, op.mode)
    /\ UNCHANGED <<responses, call_history, default_response, op, shaped, invoked,
                   given_default, results, hooks>>

Call_assert_no_hallucination ==
    /\ op.name = "assert_no_hallucination" /\ ret = Nothing
    /\ ret' = assert_no_hallucination(op.output, op.source_docs, op.threshold)
    /\ UNCHANGED <<responses, call_history, default_response, op, shaped, invoked,
                   given_default, results, hooks>>

Call_assert_no_pii ==
    /\ op.name = "assert_no_pii" /\ ret = Nothing
    /\ ret' = assert_no_pii(op.output)
    /\ UNCHANGED <<responses, call_history, default_response, op, shaped, invoked,
                   given_default, results, hooks>>

Call_assert_json_valid ==
    /\ op.name = "assert_json_valid" /\ ret = Nothing
    /\ ret' = assert_json_valid(op.output, op.schema)
    /\ UNCHANGED <<responses, call_history, default_response, op, shaped, invoked,
                   given_default, results, hooks>>

Call_assert_format ==
    /\ op.name = "assert_format" /\ ret = Nothing
    /\ ret' = assert_format(op.output, op.format_type, op.accepted)
    /\ UNCHANGED <<responses, call_history, default_response, op, shaped, invoked,
                   given_default, results, hooks>>

NextAssertions ==
    \/ Call_assert_contains
    \/ Call_AgentTest_assert_contains
    \/ Call_assert_similarity
    \/ Call_assert_agent_response
    \/ Call_assert_list_length
    \/ Call_assert_no_hallucination
    \/ Call_assert_no_pii
    \/ Call_assert_json_valid
    \/ Call_assert_format

SpecAssertions == InitAssertions /\ [][NextAssertions]_vars

---------------------------------------------------------------------------
(* Vocabulary of the properties *)

ResolveOps == {"get_response", "openai_create", "anthropic_create", "litellm_completion"}

\* the most recent call on the resolver was a resolve, direct or through an adapter
JustResolved == op.name \in ResolveOps /\ Len(invoked) > 0

\* the arguments of the most recent resolve
CallPrompt == invoked[Len(invoked)][1]
CallKwargs == invoked[Len(invoked)][2]

\* entry i is satisfied by, or raises on, the most recent resolve's arguments
Satisfied(i) ==
    LET t == Test(responses[i], CallPrompt, CallKwargs) IN t.exc = "" /\ t.hit
Raising(i) == Test(responses[i], CallPrompt, CallKwargs).exc # ""

\* the earliest-registered satisfied entry, 0 when there is none
Earliest ==
    IF \E i \in 1..Len(responses) : Satisfied(i)
    THEN CHOOSE i \in 1..Len(responses) :
            Satisfied(i) /\ \A j \in 1..(i - 1) : ~Satisfied(j)
    ELSE 0

\* an entry registered before entry i (before the end, for i = 0) raises
RaisesBefore(i) ==
    \E j \in 1..Len(responses) : (i = 0 \/ j < i) /\ Raising(j)

IsPrefix(s, t) == Len(s) <= Len(t) /\ \A i \in 1..Len(s) : s[i] = t[i]

---------------------------------------------------------------------------
(* C1 as stated: whenever the prompt satisfies some matcher, resolve       *)
(* returns the response of the earliest-registered satisfied matcher.      *)
C1_FirstMatchAlwaysReturned ==
    (JustResolved /\ Earliest # 0)
        => ret = Returned(responses[Earliest].response, Earliest)

(* C1 amended: whenever the prompt satisfies some matcher, resolve returns *)
(* the response of the earliest-registered satisfied matcher, unless a     *)
(* matcher registered before that one raises, in which case resolve raises *)
(* and returns nothing; a later-registered satisfied matcher of any kind   *)
(* is never returned while an earlier-registered one is satisfied.         *)
C1_FirstMatchWins ==
    (JustResolved /\ Earliest # 0)
        => /\ ~RaisesBefore(Earliest)
                => ret = Returned(responses[Earliest].response, Earliest)
           /\ RaisesBefore(Earliest) => ret.kind = "raise"
           /\ ret.kind = "return" => ret.via = Earliest

\* two identical patterns registered with different responses: the first answers
C1_Witness ==
    /\ op.name = "get_response"
    /\ Len(responses) = 2
    /\ responses[1].match_type = "pattern"
    /\ responses[2].match_type = "pattern"
    /\ responses[1].key = responses[2].key
    /\ responses[1].response # responses[2].response
    /\ Satisfied(1) /\ Satisfied(2)
    /\ ret = Returned(responses[1].response, 1)

---------------------------------------------------------------------------
(* C2: the call history is exactly the log of the resolve invocations made *)
(* since the last reset (or construction), one record per invocation in    *)
(* call order, whether the call matched or fell through; get_call_count is *)
(* its length; and no step other than a reset changes or removes a record  *)
(* already appended.                                                       *)
C2_HistoryIsLog ==
    /\ [](/\ Len(call_history) = Len(invoked)
          /\ \A i \in 1..Len(invoked) :
                call_history[i] = [prompt |-> invoked[i][1], kwargs |-> invoked[i][2]]
          /\ get_call_count = Len(invoked))
    /\ [][op'.name # "reset" => IsPrefix(call_history, call_history')]_vars

\* two different calls, the second with keyword arguments and unmatched
C2_Witness ==
    /\ op.name = "get_response"
    /\ Len(call_history) = 2
    /\ call_history[1] # call_history[2]
    /\ call_history[2].kwargs # {}
    /\ ret.via = 0
    /\ get_call_count = 2

---------------------------------------------------------------------------
(* C3: reset sets the call count to 0 and leaves the matchers and the      *)
(* default response unchanged, so that every prompt resolves after the     *)
(* reset to what it resolved to before it.                                 *)
C3_ResetKeepsMatchers ==
    [][op'.name = "reset" =>
        /\ get_call_count' = 0
        /\ responses' = responses
        /\ default_response' = default_response
        /\ \A p \in Prompts, k \in KwargsInputs :
              Resolve(responses', default_response', PyStr(p), k)
                = Resolve(responses, default_response, PyStr(p), k)]_vars

\* a reset of a non-empty history, with matchers registered and the default set
C3_Witness ==
    /\ op.name = "reset"
    /\ op.before > 0
    /\ get_call_count = 0
    /\ Len(responses) > 0
    /\ given_default # NoResponse

---------------------------------------------------------------------------
\* entry i is registered before every other entry the prompt satisfies
BeforeOtherSatisfied(i) ==
    \A j \in 1..Len(responses) : (j # i /\ Satisfied(j)) => i < j

ExactEntries == {i \in 1..Len(responses) : responses[i].match_type = "exact"}

(* C4 as stated: an Exact matcher registered before every other matcher    *)
(* the prompt satisfies answers if and only if the prompt equals its key.  *)
C4_ExactAlwaysAnswers ==
    JustResolved =>
        \A i \in ExactEntries :
            BeforeOtherSatisfied(i) =>
                (ret = Returned(responses[i].response, i)
                    <=> CallPrompt = PyStr(responses[i].key))

(* C4 amended: for an Exact matcher registered before every other matcher  *)
(* the prompt satisfies, and with no matcher registered before it raising  *)
(* on the call, resolve returns that matcher's response if and only if the *)
(* prompt equals the key exactly (case-sensitive, nothing trimmed); a      *)
(* prompt that differs from the key is never answered by it.               *)
C4_ExactMatch ==
    JustResolved =>
        \A i \in ExactEntries :
            BeforeOtherSatisfied(i) =>
                /\ ret = Returned(responses[i].response, i)
                      => CallPrompt = PyStr(responses[i].key)
                /\ (CallPrompt = PyStr(responses[i].key) /\ ~RaisesBefore(i))
                      => ret = Returned(responses[i].response, i)
                /\ (CallPrompt # PyStr(responses[i].key) /\ ret.kind = "return")
                      => ret.via # i

\* the exact matcher answers ahead of a later pattern the prompt also satisfies
C4_Witness ==
    /\ op.name = "get_response"
    /\ Len(responses) = 2
    /\ responses[1].match_type = "exact"
    /\ responses[2].match_type = "pattern"
    /\ Satisfied(2)
    /\ CallPrompt = PyStr(responses[1].key)
    /\ responses[1].response # responses[2].response
    /\ ret = Returned(responses[1].response, 1)

---------------------------------------------------------------------------
\* the record a str is wrapped into: the given content, the default metrics
WithDefaultMetrics(content) ==
    [type |-> "MockResponse", content |-> content, model |-> "gpt-4",
     tokens_used |-> 100, cost |-> "0.01", latency |-> "0.5", metadata |-> {}]

\* the default response as the claim describes it
CurrentDefault ==
    IF given_default = NoResponse THEN WithDefaultMetrics("Mock response")
    ELSE IF given_default.type = "str" THEN WithDefaultMetrics(given_default.content)
    ELSE given_default

(* C5 as stated: whenever no registered matcher is satisfied, resolve       *)
(* returns the current default response.                                   *)
C5_UnmatchedAlwaysDefault ==
    (JustResolved /\ Earliest = 0) => ret = Returned(CurrentDefault, 0)

(* C5 amended: when no registered matcher is satisfied and none raises on  *)
(* the call, resolve returns the current default response: "Mock response" *)
(* with the default metrics before any set_default_response, afterwards    *)
(* the response given to the most recent one (a str wrapped with the       *)
(* default metrics); a prompt that satisfies a matcher never receives the  *)
(* default.                                                                *)
C5_DefaultResponse ==
    JustResolved =>
        /\ (Earliest = 0 /\ ~RaisesBefore(0)) => ret = Returned(CurrentDefault, 0)
        /\ (Earliest # 0 /\ ret.kind = "return") => ret.via # 0

\* an unmatched prompt, matchers registered, the default set to a str
C5_Witness ==
    /\ op.name = "get_response"
    /\ Len(responses) > 0
    /\ Earliest = 0
    /\ given_default = StrResponse("D")
    /\ ret = Returned(WithDefaultMetrics("D"), 0)

---------------------------------------------------------------------------
\* entry i is reached by the scan: no earlier entry is satisfied or raises
Reached(i) == \A j \in 1..(i - 1) : ~Satisfied(j) /\ ~Raising(j)

(* C6: when a Predicate matcher reached during the scan raises, resolve    *)
(* raises that same exception: the failure is not taken for "no match", no *)
(* later-registered matcher answers and the default is not returned.       *)
C6_PredicateExceptionPropagates ==
    JustResolved =>
        \A i \in 1..Len(responses) :
            (responses[i].match_type = "function" /\ Raising(i) /\ Reached(i))
                => ret = Raise(CallMatcher(responses[i].fn, CallPrompt, CallKwargs).exc, i)

\* a raising predicate registered ahead of a matcher the prompt satisfies
C6_Witness ==
    /\ op.name = "get_response"
    /\ Len(responses) = 2
    /\ responses[1].match_type = "function"
    /\ Raising(1)
    /\ Satisfied(2)
    /\ ret.kind = "raise"
    /\ ret.exc = "KeyError"

---------------------------------------------------------------------------
(* C7: get_last_call is None exactly when the history is empty, as on a    *)
(* fresh resolver and right after reset, and is otherwise the record of    *)
(* the most recent resolve, with that call's prompt and keyword arguments. *)
C7_LastCall ==
    /\ IsNone(get_last_call) <=> Len(invoked) = 0
    /\ op.name \in {"__init__", "reset"} => IsNone(get_last_call)
    /\ Len(invoked) > 0
          => get_last_call = [prompt |-> CallPrompt, kwargs |-> CallKwargs]

\* two calls with different prompts, the last one with keyword arguments
C7_Witness ==
    /\ Len(invoked) = 2
    /\ invoked[1][1] # invoked[2][1]
    /\ invoked[2][2] = {<<"extra_param", "value">>}
    /\ get_last_call.prompt = invoked[2][1]
    /\ get_last_call.kwargs = invoked[2][2]

---------------------------------------------------------------------------
(* C8: add_pattern with a pattern that does not compile fails at           *)
(* registration and leaves the resolver as it was: no matcher appended,    *)
(* default response and history unchanged, every prompt resolving as       *)
(* before.                                                                 *)
C8_BadPatternRejected ==
    [][(op'.name = "add_pattern" /\ CompileFails(op'.pattern)) =>
        /\ ret' = Raise("re.error", 0)
        /\ responses' = responses
        /\ default_response' = default_response
        /\ call_history' = call_history
        /\ \A p \in Prompts, k \in KwargsInputs :
              Resolve(responses', default_response', PyStr(p), k)
                = Resolve(responses, default_response, PyStr(p), k)]_vars

\* a failed registration on a resolver that has matchers, a default and a history
C8_Witness ==
    /\ op.name = "add_pattern"
    /\ CompileFails(op.pattern)
    /\ ret.kind = "raise"
    /\ Len(responses) > 0
    /\ Len(call_history) > 0
    /\ given_default # NoResponse

---------------------------------------------------------------------------
---------------------------------------------------------------------------
UserMessages(messages) == {i \in 1..Len(messages) : messages[i].role = "user"}

\* the last message with role "user"
LastUserMessage(messages) ==
    messages[CHOOSE i \in UserMessages(messages) :
                \A j \in UserMessages(messages) : j <= i]

PartText(part) == IF part.hasText THEN part.text ELSE <<>>

\* the parts' text joined by a single space
RECURSIVE SpaceJoined(_)
SpaceJoined(parts) ==
    IF Len(parts) = 1 THEN PartText(parts[1])
    ELSE PartText(parts[1]) \o <<" ">> \o SpaceJoined(Tail(parts))

\* the prompt the claim expects for a conversation whose last user message
\* has a content
ClaimedPrompt(messages) ==
    LET content == LastUserMessage(messages).content IN
    IF content.type = "list" THEN PyStr(SpaceJoined(content.parts)) ELSE content

HasUserContent(messages) ==
    /\ UserMessages(messages) # {}
    /\ LastUserMessage(messages).content.type # "absent"

(* C10: for the OpenAI-shaped and the Anthropic-shaped adapter alike, the  *)
(* prompt passed to resolve is the content of the last message with role   *)
(* "user", a list of parts being replaced by the parts' text joined by a   *)
(* single space, and the other keyword arguments are passed through        *)
(* unchanged.                                                              *)
C10_AdaptersPassLastUserContent ==
    (op.name \in {"openai_create", "anthropic_create"} /\ HasUserContent(op.messages))
        => get_last_call =
             [prompt |-> ClaimedPrompt(op.messages), kwargs |-> op.kwargs]

(* C10 for the Anthropic-shaped adapter alone, where it holds.              *)
C10_AnthropicPassesLastUserContent ==
    (op.name = "anthropic_create" /\ HasUserContent(op.messages))
        => get_last_call =
             [prompt |-> ClaimedPrompt(op.messages), kwargs |-> op.kwargs]

---------------------------------------------------------------------------
(* C11: every call through a provider adapter (OpenAI, Anthropic or        *)
(* LiteLLM shaped) performs exactly one resolve on the resolver it was     *)
(* built on: it adds exactly one record to the one history the adapters    *)
(* and the direct calls share, so that the history's length is the number  *)
(* of adapter calls plus direct calls since the last reset, which empties  *)
(* it; a conversation without a user message is resolved too, with the     *)
(* empty string as its prompt.                                             *)

AdapterOps == {"openai_create", "anthropic_create", "litellm_completion"}

\* the step just taken, told by the call it leaves in op
OneMoreRecord ==
    /\ Len(call_history') = Len(call_history) + 1
    /\ SubSeq(call_history', 1, Len(call_history)) = call_history
    /\ Len(invoked') = Len(invoked) + 1

C11_AdapterStep ==
    op'.name \in AdapterOps =>
        /\ OneMoreRecord
        /\ call_history'[Len(call_history')].kwargs = op'.kwargs
        /\ UserMessages(op'.messages) = {} =>
               call_history'[Len(call_history')].prompt = PyStr(<<>>)

C11_DirectStep == op'.name = "get_response" => OneMoreRecord

C11_ResetStep == op'.name = "reset" => call_history' = <<>>

C11_OneResolvePerCall ==
    /\ [](Len(call_history) = Len(invoked))
    /\ [][C11_AdapterStep /\ C11_DirectStep /\ C11_ResetStep]_vars

\* a second call, through an adapter, on a conversation without a user message
C11_Witness ==
    /\ op.name \in AdapterOps
    /\ UserMessages(op.messages) = {}
    /\ Len(call_history) = 2
    /\ call_history[2].prompt = PyStr(<<>>)

---------------------------------------------------------------------------
(* Vocabulary of the properties of run_test *)

JustRan == op.name = "run_test"

\* the body of the test function ran: setup returned and the call bound
BodyRan == op.setup.kind = "return" /\ Binds(op.test_func)

\* setup or the body raised, and what it raised
SetupOrBodyRaised ==
    op.setup.kind = "raise" \/ (BodyRan /\ op.test_func.body.kind = "raise")
WhatWasRaised == IF op.setup.kind = "raise" THEN op.setup ELSE op.test_func.body

Occurrences(trace, h) == Cardinality({i \in 1..Len(trace) : trace[i] = h})

---------------------------------------------------------------------------
(* C12: run_test on a callable whose body raises nothing returns a         *)
(* TestResult with status "passed" and error None, when the callable is    *)
(* handed over as the repository's tests do: a callable of no arguments    *)
(* that invokes a passing test method of the instance.                     *)

C12_PassingTestPasses ==
    ( /\ JustRan
      /\ op.test_func.name = "<lambda>"
      /\ op.test_func.params = 0
      /\ op.test_func.body.kind = "return"
      /\ op.setup.kind = "return"
      /\ op.teardown.kind = "return" )
    => /\ ret.kind = "return"
       /\ ret.val.status = "passed"
       /\ ret.val.error = PyNone

---------------------------------------------------------------------------
(* C13: in every run_test, setup is invoked first and teardown exactly     *)
(* once, last; the body runs between them, however it ends (it returns,    *)
(* raises an assertion failure or raises anything else); when setup raises *)
(* the body is not run and teardown is still invoked once.                 *)

C13_SetupBodyTeardown ==
    JustRan =>
        /\ hooks[1] = "setup"
        /\ hooks[Len(hooks)] = "teardown"
        /\ Occurrences(hooks, "setup") = 1
        /\ Occurrences(hooks, "teardown") = 1
        /\ Occurrences(hooks, "body") <= 1
        /\ BodyRan => hooks = <<"setup", "body", "teardown">>
        /\ op.setup.kind = "raise" => hooks = <<"setup", "teardown">>

\* a body that raised something other than an assertion failure
C13_Witness ==
    /\ JustRan
    /\ BodyRan
    /\ op.test_func.body.exc = "RuntimeError"
    /\ hooks = <<"setup", "body", "teardown">>

---------------------------------------------------------------------------
(* C14: a failing assertion never aborts the run.  When setup or the body  *)
(* raises an assertion failure or another Exception, run_test returns a    *)
(* TestResult with status "failed" whose error is the assertion's message, *)
(* or the message after "Unexpected error: " for another Exception; the    *)
(* status is "passed" only when neither setup nor the body raised.         *)

ReportedAsFailed ==
    /\ ret.kind = "return"
    /\ ret.val.status = "failed"
    /\ ret.val.error =
          Just(IF IsAssertionError(WhatWasRaised.exc) THEN WhatWasRaised.message
               ELSE <<"Unexpected error: ">> \o WhatWasRaised.message)

PassedOnlyWhenNothingRaised ==
    (ret.kind = "return" /\ ret.val.status = "passed") => ~SetupOrBodyRaised

\* as stated: whatever teardown does
C14_FailureAlwaysReported ==
    JustRan =>
        /\ (SetupOrBodyRaised /\ IsException(WhatWasRaised.exc)) => ReportedAsFailed
        /\ PassedOnlyWhenNothingRaised

\* as the code has it: teardown runs in the finally clause, and what it
\* raises leaves run_test in place of the TestResult
C14_FailureReported ==
    JustRan =>
        /\ ( /\ SetupOrBodyRaised
             /\ IsException(WhatWasRaised.exc)
             /\ op.teardown.kind = "return" ) => ReportedAsFailed
        /\ op.teardown.kind = "raise" => ret = op.teardown
        /\ PassedOnlyWhenNothingRaised

\* a setup that raised something other than an assertion failure, reported
C14_Witness ==
    /\ JustRan
    /\ op.setup.exc = "RuntimeError"
    /\ op.teardown.kind = "return"
    /\ ret.kind = "return"
    /\ ret.val.error = Just(<<"Unexpected error: ", "no connection">>)

---------------------------------------------------------------------------
(* Vocabulary of the properties of the assertions *)

\* the assertion of that name has been called and has ended
Called(name) == op.name = name /\ ret.kind # "none"

Passed == ret.kind = "return"
FailedAssertion == ret.kind = "raise" /\ ret.exc = "AssertionError"

\* the words of s: the longest runs without whitespace of s in lower case
WordsOf(s) ==
    LET l == str_lower(s)
        Blank(i) == i < 1 \/ i > Len(l) \/ IsSpace(l[i])
    IN { SubSeq(l, i, j) : <<i, j>> \in
            { r \in (1..Len(l)) \X (1..Len(l)) :
                /\ r[1] <= r[2]
                /\ \A k \in r[1]..r[2] : ~Blank(k)
                /\ Blank(r[1] - 1) /\ Blank(r[2] + 1) } }

---------------------------------------------------------------------------
(* C15: similarity(output, expected, minScore) passes exactly when         *)
(* expected has no words or the share of expected's words that are words   *)
(* of output is at least minScore, the words of a string being its         *)
(* whitespace-separated tokens in lower case; the score is a recall over   *)
(* the expected words: a word added to output never turns a pass into a    *)
(* failure, and swapping the two strings can change the outcome.           *)

Recall(output, expected) ==
    Ratio(Cardinality(WordsOf(output) \cap WordsOf(expected)),
          Cardinality(WordsOf(expected)))

---------------------------------------------------------------------------
(* C16: assert_no_hallucination on an output without a sentence (nothing   *)
(* but terminators and whitespace, or nothing at all) has grounding ratio  *)
(* 0 and fails for every threshold above 0, whatever the source documents  *)
(* are; it never passes for want of sentences.                             *)

NoSentence(output) ==
    \A i \in 1..Len(output) : output[i] \in {".", "!", "?"} \/ IsSpace(output[i])

C16_NoSentenceIsUngrounded ==
    ( /\ Called("assert_no_hallucination")
      /\ NoSentence(op.output)
      /\ op.threshold.num > 0 )
    => /\ FailedAssertion
       /\ SubSeq(ret.message, 1, 5) = <<"Grounding ratio ", "0", ".", "0", "0">>

C16_Witness ==
    /\ Called("assert_no_hallucination")
    /\ op.output = <<".", " ", "?">>
    /\ Len(op.source_docs) > 0
    /\ op.threshold = Float(1, 10, "0.1")
    /\ FailedAssertion

---------------------------------------------------------------------------
(* C17: assert_json_valid with a schema fails, naming the property,        *)
(* whenever the parsed object lacks a key that the schema lists in         *)
(* "required"; this for every name in "required" and at every nesting      *)
(* level reached through "properties".                                     *)

\* the required keys that data lacks, at this level and below
RECURSIVE MissingRequired(_, _)
MissingRequired(data, schema) ==
    IF data.kind # "object" THEN {}
    ELSE (IF "required" \in schema.keys
          THEN {schema.required[r] : r \in
                   {r \in 1..Len(schema.required) : ~HasMember(data, schema.required[r])}}
          ELSE {})
         \cup
         (IF "properties" \in schema.keys
          THEN UNION { MissingRequired(GetMember(data, schema.properties[p].key),
                                       schema.properties[p].value_schema) :
                         p \in {p \in 1..Len(schema.properties) :
                                   HasMember(data, schema.properties[p].key)} }
          ELSE {})

C17_MissingRequiredFails ==
    ( /\ Called("assert_json_valid")
      /\ json_loads(op.output).ok
      /\ ~op.schema.isNone
      /\ MissingRequired(json_loads(op.output).val, op.schema) # {} )
    => /\ FailedAssertion
       /\ ret.message[1] = "Required property '" =>
              SubSeq(ret.message, 2, Len(ret.message) - 1)
                  \in MissingRequired(json_loads(op.output).val, op.schema)

---------------------------------------------------------------------------
(* C18: assert_no_pii fails exactly when at least one of the four          *)
(* categories (email, phone, ssn, credit card) matches the output, and its *)
(* message lists exactly the categories that match: each one that matches, *)
(* none that does not, whatever else matches.                              *)

Matching == {t \in SetOf(PiiTypes) : PiiFound(t, op.output)}

\* the names between the message's opening and the echo of the output
Listed(message) ==
    LET echo == CHOOSE i \in 1..Len(message) :
                    /\ message[i] = "\nOutput: "
                    /\ \A j \in 1..(i - 1) : message[j] # "\nOutput: "
    IN {message[i] : i \in 2..(echo - 1)} \ {", "}

C18_PiiReported ==
    Called("assert_no_pii") =>
        /\ Passed <=> Matching = {}
        /\ FailedAssertion <=> Matching # {}
        /\ FailedAssertion =>
              /\ ret.message[1] = "PII detected in output: "
              /\ Listed(ret.message) = Matching

\* two categories at once, and one that does not match
C18_Witness ==
    /\ Called("assert_no_pii")
    /\ FailedAssertion
    /\ Matching = {"email", "ssn"}
    /\ Listed(ret.message) = {"email", "ssn"}

---------------------------------------------------------------------------
(* C19: contains (the module function and the AgentTest method alike)      *)
(* passes exactly when expected is a substring of output, both lowercased  *)
(* by default and both verbatim with caseSensitive; hence every input that *)
(* passes with caseSensitive = true passes with caseSensitive = false      *)
(* too; contains("Hello World", "world") passes by default and fails with  *)
(* caseSensitive = true.                                                   *)

CalledContains ==
    Called("assert_contains") \/ Called("AgentTest.assert_contains")

ContainsAsCompared ==
    CalledContains =>
        /\ ~Passed => FailedAssertion
        /\ op.case_sensitive => (Passed <=> IsIn(op.expected, op.output))
        /\ ~op.case_sensitive =>
              (Passed <=> IsIn(str_lower(op.expected), str_lower(op.output)))
        /\ (op.output = HelloWorld /\ op.expected = world) =>
              (Passed <=> ~op.case_sensitive)

C19_ContainsIgnoringCase ==
    /\ ContainsAsCompared
    /\ (CalledContains /\ ~op.case_sensitive /\ IsIn(op.expected, op.output))
          => Passed

\* C19, without its inference: what the comparison does hold to, and the
\* inference itself for the outputs that have no capital sigma
C19_ContainsWithoutSigma ==
    /\ ContainsAsCompared
    /\ ( /\ CalledContains /\ ~op.case_sensitive
          /\ IsIn(op.expected, op.output)
          /\ "SIGMA" \notin SetOf(op.output) )
          => Passed

---------------------------------------------------------------------------
(* C20: a mode that agentResponse or listLength does not recognise, or a   *)
(* formatType that format does not recognise, always raises ValueError,    *)
(* whatever the other arguments are: never an assertion failure, never a   *)
(* silent pass.                                                            *)

AgentResponseModes == {"contains", "equals", "regex", "similarity"}
ListLengthModes == {"exact", "min", "max"}
FormatTypeNames == {"json", "yaml", "markdown", "html", "xml"}

RaisedValueError == ret.kind = "raise" /\ ret.exc = "ValueError"

C20_UnknownModeRaises ==
    /\ (Called("assert_agent_response") /\ op.mode \notin AgentResponseModes)
          => RaisedValueError
    /\ (Called("assert_list_length") /\ op.mode \notin ListLengthModes)
          => RaisedValueError
    /\ (Called("assert_format") /\ op.format_type \notin FormatTypeNames)
          => RaisedValueError

\* an unknown mode with arguments that every known mode accepts
C20_Witness ==
    /\ Called("assert_agent_response")
    /\ op.mode = "fuzzy"
    /\ op.output = op.expected
    /\ \A mode \in AgentResponseModes :
           assert_agent_response(op.output, op.expected, mode,
                                 op.case_sensitive).kind = "return"
    /\ RaisedValueError

---------------------------------------------------------------------------
(* C21: the matcher sequence is append-only: each successful registration  *)
(* adds exactly one matcher at the end and leaves the earlier ones, and    *)
(* their order, as they were; no other operation (resolve, setting the     *)
(* default, reset, a failed add_pattern) changes the sequence; so a prompt *)
(* answered by a matcher is answered the same after any registration.      *)

Registrations == {"add_response", "add_pattern", "add_function_response"}

\* the step is a registration that succeeded
Registering == op'.name \in Registrations /\ ret'.kind # "raise"

C21_AppendOnly ==
    [][ /\ Registering =>
              /\ Len(responses') = Len(responses) + 1
              /\ SubSeq(responses', 1, Len(responses)) = responses
              /\ \A c \in Calls :
                    LET before == Resolve(responses, default_response, c[1], c[2])
                    IN (before.kind = "return" /\ before.via > 0)
                         => Resolve(responses', default_response', c[1], c[2]) = before
        /\ ~Registering => responses' = responses ]_vars

\* a prompt answered by the first matcher, then a second matcher registered
\* that the same prompt satisfies
C21_Witness ==
    /\ op.name = "add_pattern"
    /\ ret.kind # "raise"
    /\ Len(responses) = 2
    /\ Len(invoked) > 0
    /\ Test(responses[1], CallPrompt, CallKwargs).hit
    /\ Test(responses[2], CallPrompt, CallKwargs).hit
    /\ responses[1].response # responses[2].response

---------------------------------------------------------------------------
(* C22: get_response changes nothing but the history: the matchers and the *)
(* default response are the same before and after every call, whether it   *)
(* matched, fell through to the default or ended in a predicate exception. *)

C22_ResolveOnlyRecords ==
    [][op'.name = "get_response" =>
          /\ responses' = responses
          /\ default_response' = default_response]_vars

\* a call answered by a matcher, with a second matcher and a default set
C22_Witness ==
    /\ op.name = "get_response"
    /\ Len(responses) = 2
    /\ given_default # NoResponse
    /\ ret.kind = "return"
    /\ ret.via = 1

---------------------------------------------------------------------------
(* C23: a get_response that ends in a predicate exception is recorded all  *)
(* the same: the history has grown by exactly one record, holding the      *)
(* call's prompt and keyword arguments, so get_call_count counts the calls *)
(* that failed too.                                                        *)

C23_FailedCallRecorded ==
    [][(op'.name = "get_response" /\ ret'.kind = "raise"
            /\ responses[ret'.via].match_type = "function") =>
          /\ call_history' =
                Append(call_history,
                       CallRecord(invoked'[Len(invoked')][1], invoked'[Len(invoked')][2]))
          /\ get_call_count' = get_call_count + 1]_vars

\* two calls, both ended by the predicate's exception, both counted
C23_Witness ==
    /\ op.name = "get_response"
    /\ ret.kind = "raise"
    /\ ret.exc = "KeyError"
    /\ get_call_count = 2
    /\ \A i \in 1..2 : Raising(1) /\ ~HasKey(call_history[i].kwargs, "extra_param")
    /\ get_last_call = CallRecord(CallPrompt, CallKwargs)

---------------------------------------------------------------------------
(* C24: a pattern matcher is satisfied exactly when its pattern matches    *)
(* starting at position 0 of the prompt, whether or not the match reaches  *)
(* the end of the prompt; a pattern that only occurs later in the prompt   *)
(* does not satisfy it, and get_response goes on to the later matchers or  *)
(* the default.                                                            *)

\* the pattern matches the whole of w: w splits into one piece per item, a
\* single character the atom accepts, or any number of them under a star
MatchesAll(items, w) ==
    \E cut \in [0..Len(items) -> 0..Len(w)] :
        /\ cut[0] = 0
        /\ cut[Len(items)] = Len(w)
        /\ \A k \in 1..Len(items) :
              /\ cut[k - 1] <= cut[k]
              /\ ~items[k].star => cut[k] = cut[k - 1] + 1
              /\ \A j \in (cut[k - 1] + 1)..cut[k] :
                    items[k].atom = "." \/ items[k].atom = w[j]

\* the pattern matches a piece of s that starts after the first `from` characters
MatchesAt(items, s, from) ==
    \E to \in from..Len(s) : MatchesAll(items, SubSeq(s, from + 1, to))

---------------------------------------------------------------------------
(* C25: assert_agent_response in mode "similarity" passes on exactly the   *)
(* inputs on which assert_similarity with min_score 0.8 passes, for every  *)
(* output and expected, an expected without words (an automatic pass)      *)
(* included.                                                               *)

CalledInSimilarityMode ==
    Called("assert_agent_response") /\ op.mode = "similarity"

PassesSimilarity08 ==
    assert_similarity(op.output, op.expected, Float(4, 5, "0.8")).kind = "return"

C25_SimilarityModeAgrees ==
    CalledInSimilarityMode => (Passed <=> PassesSimilarity08)

\* C25 for the expected strings that have a word: the two agree; and an
\* expected string without words fails in mode "similarity"
C25_SimilarityModeAgreesOnWords ==
    CalledInSimilarityMode =>
        /\ WordsOf(op.expected) # {} => (Passed <=> PassesSimilarity08)
        /\ WordsOf(op.expected) = {} => (FailedAssertion /\ PassesSimilarity08)

---------------------------------------------------------------------------
(* C26: assert_no_hallucination passes exactly when the grounded sentences *)
(* divided by all the sentences is at least the threshold (0 when there is *)
(* no sentence, C16); a sentence is grounded when, for at least one source *)
(* document, strictly more than half of its distinct lowercased words are  *)
(* words of that document (exactly half is not enough); a sentence counts  *)
(* once however many documents ground it, so the ratio never exceeds 1.    *)

\* the sentences of output, as the stretches <<i, j>> of it that hold no
\* terminator, cannot be extended, and are not all whitespace
SentencesOf(output) ==
    LET Ends(i) == i < 1 \/ i > Len(output) \/ output[i] \in {".", "!", "?"}
    IN { r \in (1..Len(output)) \X (1..Len(output)) :
            /\ r[1] <= r[2]
            /\ \A k \in r[1]..r[2] : ~Ends(k)
            /\ Ends(r[1] - 1) /\ Ends(r[2] + 1)
            /\ \E k \in r[1]..r[2] : ~IsSpace(output[k]) }

GroundedIn(words, doc) == 2 * Cardinality(words \cap WordsOf(doc)) > Cardinality(words)

GroundedSentences(output, source_docs) ==
    { r \in SentencesOf(output) :
        \E d \in 1..Len(source_docs) :
            GroundedIn(WordsOf(SubSeq(output, r[1], r[2])), source_docs[d]) }

---------------------------------------------------------------------------
(* C28: every run_test call appends exactly one TestResult to the          *)
(* instance's results and returns that same result, so that after n calls  *)
(* the list holds n results in call order, whatever setup, the test body   *)
(* or teardown did.                                                        *)

C28_OneResultPerCall ==
    [][op'.name = "run_test" =>
          /\ ret'.kind = "return"
          /\ results' = Append(results, ret'.val)]_vars

\* C28 for the calls that return: the result returned is the one appended,
\* after the earlier ones; a call that raises appends nothing
C28_OneResultPerReturn ==
    [][op'.name = "run_test" =>
          /\ ret'.kind = "return" => results' = Append(results, ret'.val)
          /\ ret'.kind = "raise" => results' = results]_vars

---------------------------------------------------------------------------
(* C30: in the shapes that report a total and two partial token counts     *)
(* (OpenAI and LiteLLM), the parts add up to the total: prompt_tokens +    *)
(* completion_tokens = total_tokens = tokens_used of the resolved          *)
(* response, for every tokens_used.                                        *)

ShapedWithTotal == shaped.provider \in {"openai", "litellm"}

C30_TokenPartsAddUp ==
    ShapedWithTotal =>
        /\ shaped.total_tokens = ret.val.tokens_used
        /\ shaped.prompt_tokens + shaped.completion_tokens = shaped.total_tokens

\* C30 as far as it goes: the total is tokens_used, the parts are equal and
\* add up to the total when it is even, to one less when it is odd
C30_TokenPartsAreHalves ==
    ShapedWithTotal =>
        /\ shaped.total_tokens = ret.val.tokens_used
        /\ shaped.prompt_tokens = shaped.completion_tokens
        /\ shaped.prompt_tokens + shaped.completion_tokens
              = shaped.total_tokens - (shaped.total_tokens % 2)

---------------------------------------------------------------------------
(* Vocabulary of the properties of the runner *)

\* the runner has run: run_all over the discovered classes, or
\* _run_test_class on one of them
RunnerRan == op.name \in {"run_all", "_run_test_class"}

ClassesRun ==
    IF op.name = "run_all" THEN op.test_classes ELSE <<op.test_classes[op.which]>>

\* how often the runner invoked `call` for the method of that name
TimesInvoked(call, name) ==
    Cardinality({i \in 1..Len(hooks) : hooks[i].call = call /\ hooks[i].method = name})

\* the results the runner returned under that test name
ResultsNamed(name) ==
    {i \in 1..Len(ret.val.results) : ret.val.results[i].test_name = name}

---------------------------------------------------------------------------
(* C27: the runner reports a method marked with @test_agent, not skipped,  *)
(* not parametrised, whose body raises nothing, with status "passed": the  *)
(* bound method handed to run_test has its body executed once on the       *)
(* instance and is counted under passed in the summary.                    *)

PlainPassing(m) ==
    /\ IsTestMethod(m)
    /\ m.is_agent_test
    /\ m.skip.isNone
    /\ m.parametrize.isNone
    /\ m.body.kind = "return"

C27_PlainTestPasses ==
    ( /\ RunnerRan
      /\ Len(ClassesRun) = 1
      /\ ClassesRun[1].setup.kind = "return"
      /\ ClassesRun[1].teardown.kind = "return" )
    => \A m \in ClassesRun[1].methods :
          PlainPassing(m) =>
              /\ ret.kind = "return"
              /\ \E i \in ResultsNamed(m.name) : ret.val.results[i].status = "passed"
              /\ TimesInvoked("body", m.name) = 1
              /\ ret.val.passed >= 1

\* what the runner does report for such a method: one result, "failed",
\* with the TypeError of the call as its error, the body never entered
C27_PlainTestFailsToBind ==
    ( /\ RunnerRan
      /\ Len(ClassesRun) = 1
      /\ ClassesRun[1].setup.kind = "return"
      /\ ClassesRun[1].teardown.kind = "return" )
    => \A m \in ClassesRun[1].methods :
          PlainPassing(m) =>
              /\ ret.kind = "return"
              /\ Cardinality(ResultsNamed(m.name)) = 1
              /\ \A i \in ResultsNamed(m.name) :
                    /\ ret.val.results[i].status = "failed"
                    /\ ret.val.results[i].error.val[1] = "Unexpected error: "
              /\ TimesInvoked("body", m.name) = 0
              /\ TimesInvoked("setup", m.name) = 1
              /\ TimesInvoked("teardown", m.name) = 1

---------------------------------------------------------------------------
(* C29: a method marked as an agent test and as skipped is never executed  *)
(* by the runner: neither setup, nor its body, nor teardown is invoked for *)
(* it; in the results the runner returns it has exactly one result, with   *)
(* status "skipped", duration 0 and the skip reason as its error.          *)

SkippedAgentTest(m) == IsTestMethod(m) /\ m.is_agent_test /\ ~m.skip.isNone

SkippedResult(m) ==
    [test_name |-> m.name, status |-> "skipped", duration |-> "0.0",
     agent_output |-> PyNone, expected_output |-> PyNone, error |-> m.skip,
     metadata |-> {}]

=============================================================================
